---- MODULE Spec2Model ----
(***************************************************************************)
(* The request-resolution workflow of care-engine:                         *)
(* ResolutionAgent.process_request (src/src/resolution_engine.py) over the *)
(* record store MongoDBHandler (src/src/data_handler.py), and the human    *)
(* resolve endpoint of src/src/fast_api.py.                                *)
(*                                                                         *)
(* Every await on the store or the oracle is one atomic step of a worker;  *)
(* a store or oracle call may raise (a fault), in which case it writes     *)
(* nothing.  Python's None is the empty sequence, Some(x) is <<x>>.        *)
(* Strings that the code scans (the message) are sequences of characters.  *)
(* Confidences are in hundredths (0.7 is 70).                              *)
(***************************************************************************)
EXTENDS Integers, Sequences, FiniteSets, TLC

VARIABLES
    customers,    \* collection "customers": customer_id -> None | Some(document)
    orders,       \* collection "orders": a set of documents
    payments,     \* collection "payments": a set of documents
    escalations,  \* collection "escalations": documents in insertion order
    pc,           \* per worker: the await the call is suspended at
    state,        \* per worker: the AgentState of the call
    local,        \* per worker: locals of _validate_refund_with_gemini and the pending exception
    response,     \* per worker: what process_request gave its caller
    trace,        \* per worker: the store and oracle calls issued by the call, in order
    stages,       \* per worker: the workflow nodes the call has run, in order
    entry,        \* per worker: the arguments of the call and the store when it began
    oracle,       \* the replies the oracle may give
    faults,       \* store faults the environment may still inject
    calls,        \* process_request calls begun so far
    hpc,          \* the human resolve endpoint: the await it is suspended at
    hreq          \* the human resolve endpoint: its request and locals

vars == <<customers, orders, payments, escalations, pc, state, local, response,
          trace, stages, entry, oracle, faults, calls, hpc, hreq>>

storeVars == <<customers, orders, payments, escalations>>
humanVars == <<hpc, hreq>>
envVars == <<oracle, entry, calls>>

-----------------------------------------------------------------------------
(* Bounds of the model *)

MaxFaults == 2
MaxResolves == 1
MaxCalls == 3

(* Program constants *)

ConfidenceThreshold == 70
ConfidenceMin == 0
ConfidenceMax == 100
OrderIdDigits == 3

-----------------------------------------------------------------------------
(* Optional values *)

None == <<>>
Some(x) == <<x>>
IsSome(o) == o # <<>>
Get(o) == o[1]

Workers == {"w1", "w2"}

-----------------------------------------------------------------------------
(* The order-reference pattern r'ORD\d{3}', first match *)

Digit == {"0", "1", "2", "3", "4", "5", "6", "7", "8", "9"}

MatchesAt(message, i) ==
    /\ i + 2 + OrderIdDigits <= Len(message)
    /\ message[i] = "O"
    /\ message[i + 1] = "R"
    /\ message[i + 2] = "D"
    /\ \A k \in 1..OrderIdDigits : message[i + 2 + k] \in Digit

ExtractOrderId(message) ==
    LET hits == {i \in 1..Len(message) : MatchesAt(message, i)}
    IN  IF hits = {}
        THEN None
        ELSE LET first == CHOOSE i \in hits : \A j \in hits : i <= j
             IN  SubSeq(message, first, first + 2 + OrderIdDigits)

-----------------------------------------------------------------------------
(* The seeded store and the inputs of a call *)

ORD001 == <<"O", "R", "D", "0", "0", "1">>
ORD002 == <<"O", "R", "D", "0", "0", "2">>
ORD003 == <<"O", "R", "D", "0", "0", "3">>
ORD004 == <<"O", "R", "D", "0", "0", "4">>
ORD005 == <<"O", "R", "D", "0", "0", "5">>

CustomerIds == {"WM001", "WM002", "WM404"}

\* order_date is a string; its characters are kept as digits ("9" and "10")
SeedOrders ==
    { [order_id |-> ORD001, customer_id |-> "WM001", status |-> "delivered",
       total_amount |-> 25, order_date |-> <<9>>],
      [order_id |-> ORD002, customer_id |-> "WM001", status |-> "delivered",
       total_amount |-> 40, order_date |-> <<1, 0>>],
      [order_id |-> ORD003, customer_id |-> "WM001", status |-> "cancelled",
       total_amount |-> 40, order_date |-> <<1, 1>>],
      [order_id |-> ORD004, customer_id |-> "WM002", status |-> "cancelled",
       total_amount |-> 25, order_date |-> <<3>>],
      [order_id |-> ORD005, customer_id |-> "WM002", status |-> "shipped",
       total_amount |-> 0, order_date |-> <<4>>] }

SeedPayments ==
    { [order_id |-> ORD001, customer_id |-> "WM001", status |-> "pending"],
      [order_id |-> ORD002, customer_id |-> "WM001", status |-> "refunded"],
      [order_id |-> ORD003, customer_id |-> "WM001", status |-> "refunded"],
      [order_id |-> ORD004, customer_id |-> "WM002", status |-> "failed"] }

SeedBalances == {0, 100}

KnownIntents == {"REFUND_REQUEST", "WALLET_ISSUE", "DELIVERY_ISSUE", "PAYMENT_PROBLEM",
                 "ORDER_STATUS"}

\* the labels are compared as strings, so any other label, a known one in
\* lower case included, is an unknown intent
Intents == KnownIntents \cup {"GENERAL_INQUIRY", "refund_request"}

Messages ==
    { <<"h", "i", " ", "o", "r", "d", "0", "0", "1">>,
      <<"O", "R", "D", "0", "1", " ", "?">>,
      ORD001,
      <<"x", "O", "R", "D", "0", "0", "2", "7">>,
      ORD003,
      ORD004,
      ORD005,
      <<"O", "R", "D", "9", "9", "9", " ">> \o ORD001 }

NoImage == "None"
EmptyImage == "b''"
Images == {NoImage, EmptyImage, "jpeg"}

\* Python truthiness of image_data: None and b'' are falsy
HasImage(image_data) == image_data # NoImage /\ image_data # EmptyImage

\* refund_amount is any float the caller passes: absent, zero, positive, negative
RefundHints == {None, Some(0), Some(10), Some(0 - 10)}

CaseIds == {"case-a", "case-b"}
HumanCaseIds == CaseIds \cup {"case-h"}

-----------------------------------------------------------------------------
(* MongoDBHandler reads *)

FindOne(docs) == IF docs = {} THEN None ELSE Some(CHOOSE d \in docs : TRUE)

get_customer(customer_id) ==
    IF customer_id \in DOMAIN customers THEN customers[customer_id] ELSE None

get_order(order_id) == FindOne({o \in orders : o.order_id = order_id})

get_order_payment(order_id) == FindOne({p \in payments : p.order_id = order_id})

get_customer_orders(customer_id) == {o \in orders : o.customer_id = customer_id}

\* a query that returns every payment of the customer, whatever its status
get_all_payments(customer_id) == {p \in payments : p.customer_id = customer_id}

get_failed_payments(customer_id) ==
    {p \in payments : p.customer_id = customer_id /\ p.status = "failed"}

\* index of the first escalation document with this case_id, 0 when there is none
FirstEscalation(case_id) ==
    LET hits == {i \in 1..Len(escalations) : escalations[i].case_id = case_id}
    IN  IF hits = {} THEN 0 ELSE CHOOSE i \in hits : \A j \in hits : i <= j

get_escalation(case_id) ==
    IF FirstEscalation(case_id) = 0 THEN None ELSE Some(escalations[FirstEscalation(case_id)])

(* MongoDBHandler writes *)

WalletSet(customer_id, new_balance) ==
    IF IsSome(get_customer(customer_id))
    THEN [customers EXCEPT ![customer_id] =
             Some([Get(@) EXCEPT !.wallet_balance = new_balance])]
    ELSE customers

EscalationDoc(case_id, customer_id, issue_details) ==
    [case_id |-> case_id, customer_id |-> customer_id,
     issue_details |-> issue_details, status |-> "pending", resolution |-> None]

Inserted(case_id, customer_id, issue_details) ==
    Append(escalations, EscalationDoc(case_id, customer_id, issue_details))

-----------------------------------------------------------------------------
(* Texts.  A response is the fixed part of the code's f-string and the     *)
(* values it interpolates; issue details likewise.                          *)

Text(text) == [text |-> text, order_id |-> None, amounts |-> <<>>, error |-> ""]
TextOrder(text, order_id) == [Text(text) EXCEPT !.order_id = order_id]
TextAmounts(text, amounts) == [Text(text) EXCEPT !.amounts = amounts]
TextError(text, error) == [Text(text) EXCEPT !.error = error]

Issue(text, error, s) ==
    [text |-> text, error |-> error, message |-> s.message,
     order_id |-> None, refund_amount |-> None, validation_result |-> None]


\* escalation details that carry the message only
IssueRefundBare(s, result) ==
    [text |-> "Refund validation escalated", error |-> "", message |-> s.message,
     order_id |-> None, refund_amount |-> None, validation_result |-> None]

IssueRefund(s, result) ==
    [text |-> "Refund validation escalated", error |-> "", message |-> s.message,
     order_id |-> s.order_id, refund_amount |-> s.refund_amount,
     validation_result |-> Some(result)]

-----------------------------------------------------------------------------
(* process_request: the initial AgentState and the response it builds *)

InitialState(intent, message, customer_id, case_id, image_data, refund_amount) ==
    [intent |-> intent, message |-> message, customer_id |-> customer_id,
     case_id |-> case_id, order_id |-> None, order_data |-> None,
     image_data |-> image_data, refund_amount |-> refund_amount,
     status |-> "pending", response |-> Text("Processing your request..."),
     validation_result |-> None]

NoResponse ==
    [outcome |-> "none", status |-> "", message |-> Text(""), case_id |-> "",
     order_id |-> None, validation_details |-> None, error |-> ""]

ResponseData(s) ==
    [outcome |-> "returned", status |-> s.status, message |-> s.response,
     case_id |-> s.case_id, order_id |-> s.order_id,
     validation_details |-> s.validation_result, error |-> ""]

ErrorResponse(case_id, error) ==
    [outcome |-> "returned", status |-> "escalated",
     message |-> Text("We encountered a technical issue processing your request. It has been escalated for manual review."),
     case_id |-> case_id, order_id |-> None, validation_details |-> None,
     error |-> error]

Raised(error) == [NoResponse EXCEPT !.outcome = "raised", !.error = error]

NoLocal ==
    [order |-> None, order_id |-> None, customer |-> None, reply |-> None,
     result |-> None, new_balance |-> 0, error |-> ""]

IdleState == InitialState("", <<>>, "", "", NoImage, None)

-----------------------------------------------------------------------------
(* The decisions of the workflow, as the code computes them *)

\* a routing that sends every refund request to the refund-decision stage
ShouldProcessRefundAlways(s) ==
    IF s.intent # "REFUND_REQUEST" THEN "handle_other_intents"
    ELSE "refund_decision"

ShouldProcessRefund(s) ==
    IF s.intent # "REFUND_REQUEST" THEN "handle_other_intents"
    ELSE IF s.status = "escalated" THEN "END"
    ELSE IF ~IsSome(s.order_data) THEN "END"
    ELSE "refund_decision"

\* "if not state['refund_amount']": None and 0 are both falsy
RefundAmountOrDefault(refund_amount, order) ==
    IF refund_amount = None \/ refund_amount = Some(0)
    THEN Some(order.total_amount)
    ELSE refund_amount

\* the most recent delivered orders of the customer: sort by order_date, reverse=True
\* an order of the dates by their length alone
ShorterFirst(a, b) == Len(a) < Len(b)

LexLess(a, b) ==
    \E k \in 1..(Len(a) + 1) :
        /\ k <= Len(b)
        /\ \A j \in 1..(k - 1) : j <= Len(a) /\ a[j] = b[j]
        /\ (k = Len(a) + 1 \/ a[k] < b[k])

RecentOrders(customer_orders) ==
    LET delivered == {o \in customer_orders : o.status = "delivered"}
    IN  {o \in delivered : \A q \in delivered : ~LexLess(o.order_date, q.order_date)}

Verdict(status, text, reason) ==
    [status |-> status, message |-> text, confidence |-> 0, nan |-> FALSE,
     reason |-> reason]

\* the checks with the payment looked at before the order status
PreCheckRefundedFirst(s, order, payment) ==
    IF ~IsSome(order)
    THEN Some(Verdict("escalated",
              TextOrder("Order not found. Escalated for manual review.", s.order_id),
              "order_not_found"))
    ELSE IF IsSome(payment) /\ Get(payment).status = "refunded"
    THEN Some(Verdict("escalated",
              TextOrder("Order was already refunded.", s.order_id),
              "already_refunded"))
    ELSE IF Get(order).status = "cancelled"
    THEN Some(Verdict("escalated",
              TextOrder("Order is cancelled. No refund applicable.", s.order_id),
              "order_cancelled"))
    ELSE IF ~HasImage(s.image_data)
    THEN Some(Verdict("escalated",
              Text("No valid image data provided for validation."), "no_image"))
    ELSE None

\* checks that stop at the existence of the order
PreCheckOrderOnly(s, order, payment) ==
    IF ~IsSome(order)
    THEN Some(Verdict("escalated",
              TextOrder("Order not found. Escalated for manual review.", s.order_id),
              "order_not_found"))
    ELSE None

\* the checks of _validate_refund_with_gemini that come before the oracle
PreCheck(s, order, payment) ==
    IF ~IsSome(order)
    THEN Some(Verdict("escalated",
              TextOrder("Order not found. Escalated for manual review.", s.order_id),
              "order_not_found"))
    ELSE IF Get(order).status = "cancelled"
    THEN Some(Verdict("escalated",
              TextOrder("Order is cancelled. No refund applicable.", s.order_id),
              "order_cancelled"))
    ELSE IF IsSome(payment) /\ Get(payment).status = "refunded"
    THEN Some(Verdict("escalated",
              TextOrder("Order was already refunded.", s.order_id),
              "already_refunded"))
    ELSE IF ~HasImage(s.image_data)
    THEN Some(Verdict("escalated",
              Text("No valid image data provided for validation."), "no_image"))
    ELSE None

\* what the oracle may answer: text that parses to JSON with the three required
\* fields, text that does not parse, JSON lacking a field, or a fault of the call
OracleStatuses == {"resolved", "escalated", "unsure"}
OracleConfidences == {0 - 10, 69, 70, 100, 150}

OracleReplies ==
    [kind : {"json"}, status : OracleStatuses, confidence : OracleConfidences,
     nan : {FALSE}]
    \cup [kind : {"json"}, status : {"resolved"}, confidence : {0}, nan : {TRUE}]
    \cup [kind : {"unparsable", "missing_field", "fault"}, status : {""},
          confidence : {0}, nan : {FALSE}]

\* a status taken from the oracle as it is
KeepStatus(status) == status

CoerceStatus(status) ==
    IF status \notin {"resolved", "escalated"} THEN "escalated" ELSE status

\* comparisons with NaN are all false, so NaN is kept
ClampConfidence(confidence, nan) ==
    IF ~nan /\ (confidence < ConfidenceMin \/ confidence > ConfidenceMax)
    THEN 0 ELSE confidence

\* an approval test that needs the confidence to exceed the threshold
ApprovesAbove(status, confidence, nan) ==
    status = "resolved" /\ ~nan /\ confidence > ConfidenceThreshold

Approves(status, confidence, nan) ==
    status = "resolved" /\ ~nan /\ confidence >= ConfidenceThreshold

\* a low-confidence test that only catches confidences below the scale
LowConfidenceBelowScale(confidence, nan) == ~nan /\ confidence < ConfidenceMin

LowConfidence(confidence, nan) == ~nan /\ confidence < ConfidenceThreshold

ParsedVerdict(reply) ==
    [status |-> CoerceStatus(reply.status), message |-> Text("oracle message"),
     confidence |-> ClampConfidence(reply.confidence, reply.nan), nan |-> reply.nan,
     reason |-> "oracle reason"]

NewBalance(wallet_balance, refund_amount) == wallet_balance + refund_amount


TechnicalError(error) ==
    Verdict("escalated",
            TextError("Technical error during validation. Escalated for manual review.", error),
            "technical_error")

ParsingError ==
    Verdict("escalated",
            Text("Unable to analyze image properly. Escalated for manual review."),
            "parsing_error")

-----------------------------------------------------------------------------
(* Control: where a call goes next.  Each sets pc, state, local, response   *)
(* and stages of worker p.                                                  *)

Ctl(p, next, s, l, r, st) ==
    /\ pc' = [pc EXCEPT ![p] = next]
    /\ state' = [state EXCEPT ![p] = s]
    /\ local' = [local EXCEPT ![p] = l]
    /\ response' = [response EXCEPT ![p] = r]
    /\ stages' = [stages EXCEPT ![p] = st]

Goto(p, next, s, l) == Ctl(p, next, s, l, response[p], stages[p])

\* the workflow ended without an exception: process_request builds response_data
Return(p, s, l) == Ctl(p, "done", s, l, ResponseData(s), stages[p])

\* an exception leaves the workflow: process_request's except clause runs
Raise(p, s, l, error) ==
    Goto(p, "process_request_except", s, [l EXCEPT !.error = error])

\* a refund_decision_node that hands every request to the resolver
RefundDecisionNodeNoImageCheck(p, s, l) ==
    Ctl(p, "validate_get_order", s, l, response[p], Append(stages[p], "refund_decision"))

\* refund_decision_node up to its first await
RefundDecisionNode(p, s, l) ==
    LET st == Append(stages[p], "refund_decision")
    IN  IF s.intent = "REFUND_REQUEST" /\ IsSome(s.order_data)
        THEN IF ~HasImage(s.image_data)
             THEN LET s1 == [s EXCEPT !.status = "pending_image",
                                      !.response = TextOrder("Please upload an image of the damaged item to process your refund.", s.order_id)]
                  IN  Ctl(p, "done", s1, l, ResponseData(s1), st)
             ELSE Ctl(p, "validate_get_order", s, l, response[p], st)
        ELSE Ctl(p, "done", s, l, ResponseData(s), st)

\* a handle_other_intents_node that escalates without looking the customer up
HandleOtherIntentsNodeUnchecked(p, s, l) ==
    Ctl(p, "other_escalate",
        [s EXCEPT !.status = "escalated",
                  !.response = Text("Unable to process your request automatically. Escalated for manual review.")],
        l, response[p], Append(stages[p], "handle_other_intents"))

\* handle_other_intents_node up to its first await
HandleOtherIntentsNode(p, s, l) ==
    LET st == Append(stages[p], "handle_other_intents")
    IN  IF s.intent # "REFUND_REQUEST"
        THEN Ctl(p, "other_get_customer", s, l, response[p], st)
        ELSE Ctl(p, "done", s, l, ResponseData(s), st)

\* the conditional edges after fetch_order
Route(p, s, l) ==
    LET next == ShouldProcessRefund(s)
    IN  CASE next = "refund_decision" -> RefundDecisionNode(p, s, l)
          [] next = "handle_other_intents" -> HandleOtherIntentsNode(p, s, l)
          [] OTHER -> Return(p, s, l)

\* refund_decision_node after _validate_refund_with_gemini returned result
ValidationDone(p, s, l, result) ==
    LET s1 == [s EXCEPT !.validation_result = Some(result),
                        !.status = result.status,
                        !.response = result.message]
    IN  IF result.status = "escalated"
        THEN Goto(p, "refund_escalate", s1, [l EXCEPT !.result = Some(result)])
        ELSE Return(p, s1, [l EXCEPT !.result = Some(result)])

\* refund_decision_node's except clause
RefundDecisionExcept(p, s, l, error) ==
    Goto(p, "refund_escalate_error",
         [s EXCEPT !.status = "escalated",
                   !.response = Text("Technical error during validation. Escalated for manual review.")],
         [l EXCEPT !.error = error])

-----------------------------------------------------------------------------
(* One store or oracle call of worker p and its outcome *)

Io(p, op, ok) == trace' = [trace EXCEPT ![p] = Append(@, [op |-> op, ok |-> ok])]

Reads(p, op) == Io(p, op, TRUE) /\ UNCHANGED <<storeVars, faults>>

Faulty(p, op) ==
    /\ faults > 0
    /\ faults' = faults - 1
    /\ Io(p, op, FALSE)
    /\ UNCHANGED storeVars

add_escalation(p, s, issue_details) ==
    /\ escalations' = Inserted(s.case_id, s.customer_id, issue_details)
    /\ Io(p, "add_escalation", TRUE)
    /\ UNCHANGED <<customers, orders, payments, faults>>

\* a write that adds the refund to the balance stored at the time of the write
update_wallet_balance_atomic(p, customer_id, new_balance) ==
    /\ customers' = WalletSet(customer_id,
                        Get(get_customer(customer_id)).wallet_balance
                        + (new_balance - Get(local[p].customer).wallet_balance))
    /\ Io(p, "update_wallet_balance", TRUE)
    /\ UNCHANGED <<orders, payments, escalations, faults>>

\* a write that credits the owner of the order and not the customer it is given
update_wallet_balance_of_owner(p, customer_id, new_balance) ==
    /\ customers' = WalletSet(Get(state[p].order_data).customer_id, new_balance)
    /\ Io(p, "update_wallet_balance", TRUE)
    /\ UNCHANGED <<orders, payments, escalations, faults>>

update_wallet_balance(p, customer_id, new_balance) ==
    /\ customers' = WalletSet(customer_id, new_balance)
    /\ Io(p, "update_wallet_balance", TRUE)
    /\ UNCHANGED <<orders, payments, escalations, faults>>


-----------------------------------------------------------------------------
(* process_request begins: a fresh AgentState enters the workflow at its    *)
(* entry point, fetch_order                                                 *)

Enter(p, s) ==
    /\ calls' = calls + 1
    /\ pc' = [pc EXCEPT ![p] = "fetch_order"]
    /\ state' = [state EXCEPT ![p] = s]
    /\ local' = [local EXCEPT ![p] = NoLocal]
    /\ response' = [response EXCEPT ![p] = NoResponse]
    /\ trace' = [trace EXCEPT ![p] = <<>>]
    /\ stages' = [stages EXCEPT ![p] = <<"fetch_order">>]
    /\ entry' = [entry EXCEPT ![p] = [customers |-> customers,
                                      escalations |-> Len(escalations),
                                      request |-> s,
                                      initial |-> IF calls = 0 THEN customers
                                                  ELSE @.initial]]
    /\ UNCHANGED <<storeVars, oracle, faults, humanVars>>

\* the first call of a worker
Begin(p, s) == pc[p] = "idle" /\ Enter(p, s)

\* the caller invokes process_request again with the same arguments, after the
\* call before returned resolved
CallAgain(p) ==
    /\ pc[p] = "done"
    /\ response[p].status = "resolved"
    /\ calls < MaxCalls
    /\ Enter(p, entry[p].request)

\* one call of process_request, with any inputs
ProcessRequest(p) ==
    /\ pc[p] = "idle"
    /\ \E intent \in Intents, message \in Messages, customer_id \in CustomerIds,
          case_id \in CaseIds, image_data \in Images, refund_amount \in RefundHints :
           Begin(p, InitialState(intent, message, customer_id, case_id,
                                 image_data, refund_amount))

-----------------------------------------------------------------------------
(* fetch_order_node *)

\* "if state['order_id']" ... "else": fetch the order or escalate for want of an id
FetchResolved(p, s, l) ==
    IF s.order_id # None
    THEN Goto(p, "fetch_get_order", s, l)
    ELSE Goto(p, "fetch_escalate_no_order",
              [s EXCEPT !.status = "escalated",
                        !.response = Text("Please provide a valid order ID (e.g., ORD001) for your refund request.")],
              l)

FetchOrderNode(p) ==
    /\ pc[p] = "fetch_order"
    /\ LET s == state[p]
           s1 == [s EXCEPT !.order_id = ExtractOrderId(s.message)]
       IN  IF s.intent = "REFUND_REQUEST"
           THEN IF s1.order_id = None /\ HasImage(s1.image_data)
                THEN Goto(p, "infer_order", s1, local[p])
                ELSE FetchResolved(p, s1, local[p])
           ELSE Route(p, s, local[p])
    /\ UNCHANGED <<storeVars, faults, trace, envVars, humanVars>>

\* an inference whose store fault leaves the stage as an exception
InferOrderPropagating(p) ==
    /\ pc[p] = "infer_order"
    /\ LET s == state[p]
           recent == RecentOrders(get_customer_orders(s.customer_id))
       IN  \/ /\ Reads(p, "get_customer_orders")
              /\ IF recent = {}
                 THEN FetchResolved(p, s, local[p])
                 ELSE \E o \in recent :
                          FetchResolved(p, [s EXCEPT !.order_id = o.order_id], local[p])
           \/ /\ Faulty(p, "get_customer_orders")
              /\ Raise(p, s, local[p], "get_customer_orders")
    /\ UNCHANGED <<envVars, humanVars>>

InferOrder(p) ==
    /\ pc[p] = "infer_order"
    /\ LET s == state[p]
           recent == RecentOrders(get_customer_orders(s.customer_id))
       IN  \/ /\ Reads(p, "get_customer_orders")
              /\ IF recent = {}
                 THEN FetchResolved(p, s, local[p])
                 ELSE \E o \in recent :
                          FetchResolved(p, [s EXCEPT !.order_id = o.order_id], local[p])
           \/ /\ Faulty(p, "get_customer_orders")
              /\ FetchResolved(p, s, local[p])
    /\ UNCHANGED <<envVars, humanVars>>

FetchErrorState(s) ==
    [s EXCEPT !.status = "escalated",
              !.response = TextOrder("Error retrieving order. Escalated for manual review.", s.order_id)]

FetchGetOrder(p) ==
    /\ pc[p] = "fetch_get_order"
    /\ LET s == state[p]
           order == get_order(s.order_id)
       IN  \/ /\ Reads(p, "get_order")
              /\ IF ~IsSome(order)
                 THEN Goto(p, "fetch_escalate_not_found",
                           [s EXCEPT !.order_data = order,
                                     !.status = "escalated",
                                     !.response = TextOrder("Order not found. Escalated for manual review.", s.order_id)],
                           local[p])
                 ELSE Route(p, [s EXCEPT !.order_data = order,
                                         !.refund_amount = RefundAmountOrDefault(s.refund_amount, Get(order))],
                            local[p])
           \/ /\ Faulty(p, "get_order")
              /\ Goto(p, "fetch_escalate_error", FetchErrorState(s),
                      [local[p] EXCEPT !.error = "get_order"])
    /\ UNCHANGED <<envVars, humanVars>>

\* the order-not-found step with the insert forgotten
FetchEscalateNotFoundUnpersisted(p) ==
    /\ pc[p] = "fetch_escalate_not_found"
    /\ Route(p, state[p], local[p])
    /\ UNCHANGED <<storeVars, faults, trace, envVars, humanVars>>

\* an order-not-found step whose handler runs although the insert went through
FetchEscalateNotFoundTwice(p) ==
    /\ pc[p] = "fetch_escalate_not_found"
    /\ LET s == state[p]
       IN  \/ /\ add_escalation(p, s, Issue("Order not found", "", s))
              /\ Goto(p, "fetch_escalate_error", FetchErrorState(s),
                      [local[p] EXCEPT !.error = "add_escalation"])
           \/ /\ Faulty(p, "add_escalation")
              /\ Goto(p, "fetch_escalate_error", FetchErrorState(s),
                      [local[p] EXCEPT !.error = "add_escalation"])
    /\ UNCHANGED <<envVars, humanVars>>

FetchEscalateNotFound(p) ==
    /\ pc[p] = "fetch_escalate_not_found"
    /\ LET s == state[p]
       IN  \/ /\ add_escalation(p, s, Issue("Order not found", "", s))
              /\ Route(p, s, local[p])
           \/ /\ Faulty(p, "add_escalation")
              /\ Goto(p, "fetch_escalate_error", FetchErrorState(s),
                      [local[p] EXCEPT !.error = "add_escalation"])
    /\ UNCHANGED <<envVars, humanVars>>

FetchEscalateError(p) ==
    /\ pc[p] = "fetch_escalate_error"
    /\ LET s == state[p]
       IN  \/ /\ add_escalation(p, s, Issue("Error fetching order", local[p].error, s))
              /\ Route(p, s, local[p])
           \/ /\ Faulty(p, "add_escalation")
              /\ Raise(p, s, local[p], "add_escalation")
    /\ UNCHANGED <<envVars, humanVars>>

\* the no-order-id step with the insert forgotten
FetchEscalateNoOrderUnpersisted(p) ==
    /\ pc[p] = "fetch_escalate_no_order"
    /\ Route(p, state[p], local[p])
    /\ UNCHANGED <<storeVars, faults, trace, envVars, humanVars>>

FetchEscalateNoOrder(p) ==
    /\ pc[p] = "fetch_escalate_no_order"
    /\ LET s == state[p]
       IN  \/ /\ add_escalation(p, s, Issue("No order ID provided", "", s))
              /\ Route(p, s, local[p])
           \/ /\ Faulty(p, "add_escalation")
              /\ Raise(p, s, local[p], "add_escalation")
    /\ UNCHANGED <<envVars, humanVars>>


-----------------------------------------------------------------------------
(* refund_decision_node and _validate_refund_with_gemini *)

ValidateGetOrder(p) ==
    /\ pc[p] = "validate_get_order"
    /\ LET s == state[p]
       IN  \/ /\ Reads(p, "get_order")
              /\ Goto(p, "validate_get_payment", s,
                      [local[p] EXCEPT !.order = get_order(s.order_id)])
           \/ /\ Faulty(p, "get_order")
              /\ RefundDecisionExcept(p, s, local[p], "get_order")
    /\ UNCHANGED <<envVars, humanVars>>

ValidateGetPayment(p) ==
    /\ pc[p] = "validate_get_payment"
    /\ LET s == state[p]
           check == PreCheck(s, local[p].order, get_order_payment(s.order_id))
       IN  \/ /\ Reads(p, "get_order_payment")
              /\ IF IsSome(check)
                 THEN ValidationDone(p, s, local[p], Get(check))
                 ELSE Goto(p, "oracle", s, local[p])
           \/ /\ Faulty(p, "get_order_payment")
              /\ RefundDecisionExcept(p, s, local[p], "get_order_payment")
    /\ UNCHANGED <<envVars, humanVars>>

\* model.generate_content and the parsing of its text
Oracle(p) ==
    /\ pc[p] = "oracle"
    /\ \E reply \in oracle :
        LET s == state[p]
            l == [local[p] EXCEPT !.reply = Some(reply)]
            verdict == ParsedVerdict(reply)
        IN  /\ Io(p, "generate_content", reply.kind # "fault")
            /\ CASE reply.kind = "fault" ->
                        ValidationDone(p, s, l, TechnicalError("generate_content"))
                 [] reply.kind \in {"unparsable", "missing_field"} ->
                        ValidationDone(p, s, l, ParsingError)
                 [] OTHER ->
                        IF Approves(verdict.status, verdict.confidence, verdict.nan)
                        THEN Goto(p, "validate_get_customer", s,
                                  [l EXCEPT !.result = Some(verdict)])
                        ELSE IF LowConfidence(verdict.confidence, verdict.nan)
                        THEN ValidationDone(p, s, l,
                                 [verdict EXCEPT !.status = "escalated",
                                                 !.message = TextAmounts("Image analysis inconclusive. Escalated for human review.", <<verdict.confidence>>)])
                        ELSE ValidationDone(p, s, l, verdict)
    /\ UNCHANGED <<storeVars, faults, envVars, humanVars>>

\* a refetch that lets the verdict stand when the customer has no record
ValidateGetCustomerUnchecked(p) ==
    /\ pc[p] = "validate_get_customer"
    /\ LET s == state[p]
           customer == get_customer(s.customer_id)
       IN  \/ /\ Reads(p, "get_customer")
              /\ IF IsSome(customer)
                 THEN Goto(p, "validate_update_wallet", s,
                           [local[p] EXCEPT !.customer = customer,
                                            !.new_balance = NewBalance(Get(customer).wallet_balance, Get(s.refund_amount))])
                 ELSE ValidationDone(p, s, local[p], Get(local[p].result))
           \/ /\ Faulty(p, "get_customer")
              /\ ValidationDone(p, s, local[p], TechnicalError("get_customer"))
    /\ UNCHANGED <<envVars, humanVars>>

ValidateGetCustomer(p) ==
    /\ pc[p] = "validate_get_customer"
    /\ LET s == state[p]
           customer == get_customer(s.customer_id)
       IN  \/ /\ Reads(p, "get_customer")
              /\ IF IsSome(customer)
                 THEN Goto(p, "validate_update_wallet", s,
                           [local[p] EXCEPT !.customer = customer,
                                            !.new_balance = NewBalance(Get(customer).wallet_balance, Get(s.refund_amount))])
                 ELSE ValidationDone(p, s, local[p],
                          [Get(local[p].result) EXCEPT
                              !.status = "escalated",
                              !.message = Text("Customer not found during refund processing. Escalated for manual review.")])
           \/ /\ Faulty(p, "get_customer")
              /\ ValidationDone(p, s, local[p], TechnicalError("get_customer"))
    /\ UNCHANGED <<envVars, humanVars>>

\* an update step that tries the write again when it raised
ValidateUpdateWalletRetrying(p) ==
    /\ pc[p] = "validate_update_wallet"
    /\ LET s == state[p]
       IN  \/ /\ update_wallet_balance(p, s.customer_id, local[p].new_balance)
              /\ ValidationDone(p, s, local[p],
                     [Get(local[p].result) EXCEPT
                         !.message = TextAmounts("Refund processed successfully.",
                                                 <<Get(s.refund_amount), local[p].new_balance>>)])
           \/ /\ Faulty(p, "update_wallet_balance")
              /\ Goto(p, "validate_update_wallet", s, local[p])
    /\ UNCHANGED <<envVars, humanVars>>

\* an update step whose failure leaves the resolver and refund_decision_node
ValidateUpdateWalletPropagating(p) ==
    /\ pc[p] = "validate_update_wallet"
    /\ LET s == state[p]
       IN  \/ /\ update_wallet_balance(p, s.customer_id, local[p].new_balance)
              /\ ValidationDone(p, s, local[p],
                     [Get(local[p].result) EXCEPT
                         !.message = TextAmounts("Refund processed successfully.",
                                                 <<Get(s.refund_amount), local[p].new_balance>>)])
           \/ /\ Faulty(p, "update_wallet_balance")
              /\ Raise(p, s, local[p], "update_wallet_balance")
    /\ UNCHANGED <<envVars, humanVars>>

\* an update step that credits the wallet and still queues the case for review
ValidateUpdateWalletThenReview(p) ==
    /\ pc[p] = "validate_update_wallet"
    /\ LET s == state[p]
       IN  \/ /\ update_wallet_balance(p, s.customer_id, local[p].new_balance)
              /\ ValidationDone(p, s, local[p],
                     [Get(local[p].result) EXCEPT !.status = "escalated"])
           \/ /\ Faulty(p, "update_wallet_balance")
              /\ ValidationDone(p, s, local[p], TechnicalError("update_wallet_balance"))
    /\ UNCHANGED <<envVars, humanVars>>

\* an update step that also marks the payment of the order refunded
ValidateUpdateWalletMarkingRefunded(p) ==
    /\ pc[p] = "validate_update_wallet"
    /\ LET s == state[p]
       IN  /\ customers' = WalletSet(s.customer_id, local[p].new_balance)
           /\ payments' = {IF q.order_id = s.order_id
                           THEN [q EXCEPT !.status = "refunded"] ELSE q : q \in payments}
           /\ Io(p, "update_wallet_balance", TRUE)
           /\ ValidationDone(p, s, local[p],
                  [Get(local[p].result) EXCEPT
                      !.message = TextAmounts("Refund processed successfully.",
                                              <<Get(s.refund_amount), local[p].new_balance>>)])
    /\ UNCHANGED <<orders, escalations, faults, envVars, humanVars>>

ValidateUpdateWallet(p) ==
    /\ pc[p] = "validate_update_wallet"
    /\ LET s == state[p]
       IN  \/ /\ update_wallet_balance(p, s.customer_id, local[p].new_balance)
              /\ ValidationDone(p, s, local[p],
                     [Get(local[p].result) EXCEPT
                         !.message = TextAmounts("Refund processed successfully.",
                                                 <<Get(s.refund_amount), local[p].new_balance>>)])
           \/ /\ Faulty(p, "update_wallet_balance")
              /\ ValidationDone(p, s, local[p], TechnicalError("update_wallet_balance"))
    /\ UNCHANGED <<envVars, humanVars>>

RefundEscalate(p) ==
    /\ pc[p] = "refund_escalate"
    /\ LET s == state[p]
       IN  \/ /\ add_escalation(p, s, IssueRefund(s, Get(s.validation_result)))
              /\ Return(p, s, local[p])
           \/ /\ Faulty(p, "add_escalation")
              /\ RefundDecisionExcept(p, s, local[p], "add_escalation")
    /\ UNCHANGED <<envVars, humanVars>>

RefundEscalateError(p) ==
    /\ pc[p] = "refund_escalate_error"
    /\ LET s == state[p]
       IN  \/ /\ add_escalation(p, s, Issue("Technical error", local[p].error, s))
              /\ Return(p, s, local[p])
           \/ /\ Faulty(p, "add_escalation")
              /\ Raise(p, s, local[p], "add_escalation")
    /\ UNCHANGED <<envVars, humanVars>>

-----------------------------------------------------------------------------
(* handle_other_intents_node *)

\* an escalating branch that reports resolved and records nothing
OtherEscalatedAsResolved(p, s, l, text) ==
    Return(p, [s EXCEPT !.status = "resolved", !.response = text], l)

OtherEscalated(p, s, l, text) ==
    Goto(p, "other_escalate", [s EXCEPT !.status = "escalated", !.response = text], l)

\* a resolving branch that also queues the case for review
OtherResolvedRecorded(p, s, l, text) ==
    Goto(p, "other_escalate", [s EXCEPT !.status = "resolved", !.response = text], l)

OtherResolved(p, s, l, text) ==
    Return(p, [s EXCEPT !.status = "resolved", !.response = text], l)

\* a no-order-id branch that escalates as the order-missing branch does
OtherNoOrderIdEscalated(p, s, l) ==
    Goto(p, "other_escalate",
         [s EXCEPT !.status = "escalated",
                   !.response = Text("Order not found. Please provide a valid order ID.")], l)

\* DELIVERY_ISSUE and ORDER_STATUS when _extract_order_id returns None: "if
\* order_id:" has no else, the node returns the state as it came
OtherNoOrderId(p, s, l) == Return(p, s, l)

OtherGetCustomer(p) ==
    /\ pc[p] = "other_get_customer"
    /\ LET s == state[p]
           customer == get_customer(s.customer_id)
           l == [local[p] EXCEPT !.customer = customer,
                                 !.order_id = ExtractOrderId(s.message)]
       IN  \/ /\ Reads(p, "get_customer")
              /\ IF ~IsSome(customer)
                 THEN Return(p, [s EXCEPT !.status = "error",
                                          !.response = Text("Customer not found.")],
                             local[p])
                 ELSE IF s.intent \in {"WALLET_ISSUE", "PAYMENT_PROBLEM"}
                 THEN Goto(p, "other_failed_payments", s, l)
                 ELSE IF s.intent \in {"DELIVERY_ISSUE", "ORDER_STATUS"}
                 THEN IF l.order_id # None
                      THEN Goto(p, "other_get_order", s, l)
                      ELSE OtherNoOrderId(p, s, l)
                 ELSE OtherEscalated(p, s, l,
                          Text("Unable to process your request automatically. Escalated for manual review."))
           \/ /\ Faulty(p, "get_customer")
              /\ Raise(p, s, local[p], "get_customer")
    /\ UNCHANGED <<envVars, humanVars>>

OtherFailedPayments(p) ==
    /\ pc[p] = "other_failed_payments"
    /\ LET s == state[p]
           l == local[p]
           failed_payments == get_failed_payments(s.customer_id)
       IN  \/ /\ Reads(p, "get_failed_payments")
              /\ IF s.intent = "WALLET_ISSUE"
                 THEN IF failed_payments # {}
                      THEN OtherEscalated(p, s, l,
                               Text("We've detected payment issues. Escalated for review."))
                      ELSE OtherResolved(p, s, l,
                               TextAmounts("Your wallet balance. No issues detected.",
                                           <<Get(l.customer).wallet_balance>>))
                 ELSE IF failed_payments # {}
                      THEN OtherEscalated(p, s, l,
                               TextAmounts("Found failed payment(s). Escalated for review.",
                                           <<Cardinality(failed_payments)>>))
                      ELSE OtherResolved(p, s, l, Text("No payment issues found."))
           \/ /\ Faulty(p, "get_failed_payments")
              /\ Raise(p, s, l, "get_failed_payments")
    /\ UNCHANGED <<envVars, humanVars>>

OtherGetOrder(p) ==
    /\ pc[p] = "other_get_order"
    /\ LET s == state[p]
           l == local[p]
           order == get_order(l.order_id)
       IN  \/ /\ Reads(p, "get_order")
              /\ IF IsSome(order)
                 THEN OtherResolved(p, s, l, TextOrder("Order status. Expected delivery.", l.order_id))
                 ELSE IF s.intent = "DELIVERY_ISSUE"
                 THEN OtherEscalated(p, s, l,
                          Text("Unable to track delivery. Escalated for manual review."))
                 ELSE OtherEscalated(p, s, l,
                          Text("Order not found. Please provide a valid order ID."))
           \/ /\ Faulty(p, "get_order")
              /\ Raise(p, s, l, "get_order")
    /\ UNCHANGED <<envVars, humanVars>>

\* OtherEscalate with the insert forgotten: the call returns escalated unpersisted
OtherEscalateUnpersisted(p) ==
    /\ pc[p] = "other_escalate"
    /\ Return(p, state[p], local[p])
    /\ UNCHANGED <<storeVars, faults, trace, envVars, humanVars>>

\* the issue detail of these escalations is the customer's message itself
OtherEscalate(p) ==
    /\ pc[p] = "other_escalate"
    /\ LET s == state[p]
       IN  \/ /\ add_escalation(p, s, Issue("", "", s))
              /\ Return(p, s, local[p])
           \/ /\ Faulty(p, "add_escalation")
              /\ Raise(p, s, local[p], "add_escalation")
    /\ UNCHANGED <<envVars, humanVars>>

-----------------------------------------------------------------------------
(* process_request's except clause: escalate the workflow error; a fault of *)
(* this add_escalation leaves process_request as an exception               *)

ProcessRequestExcept(p) ==
    /\ pc[p] = "process_request_except"
    /\ LET s == state[p]
           l == local[p]
       IN  \/ /\ add_escalation(p, s, Issue("Workflow error", l.error, s))
              /\ Ctl(p, "done", s, l, ErrorResponse(s.case_id, l.error), stages[p])
           \/ /\ Faulty(p, "add_escalation")
              /\ Ctl(p, "done", s, l, Raised("add_escalation"), stages[p])
    /\ UNCHANGED <<envVars, humanVars>>

-----------------------------------------------------------------------------

(* The human resolve endpoint, POST /escalation/{case_id}/resolve *)

Resolutions ==
    [resolution_type : {"approved", "rejected"}, refund_amount : {None, Some(10)}]

NoResolve ==
    [case_id |-> "", resolution |-> None, customer_id |-> "", new_balance |-> 0,
     outcome |-> "", resolves |-> 0]

\* a resolve that stores the resolution type as the status of the case
ResolvedDocsByType(case_id, resolution) ==
    [escalations EXCEPT ![FirstEscalation(case_id)] =
        [@ EXCEPT !.status = resolution.resolution_type,
                  !.resolution = Some(resolution)]]

\* MongoDBHandler.resolve_escalation: update_one on the first document of the case
ResolvedDocs(case_id, resolution) ==
    [escalations EXCEPT ![FirstEscalation(case_id)] =
        [@ EXCEPT !.status = "resolved", !.resolution = Some(resolution)]]

HumanDone(req, outcome) ==
    /\ hpc' = "done"
    /\ hreq' = [req EXCEPT !.outcome = outcome]

\* the endpoint up to its first branch, for any case id and resolution
Resolving ==
    /\ \E case_id \in HumanCaseIds, resolution \in Resolutions :
        LET req == [NoResolve EXCEPT !.case_id = case_id,
                                     !.resolution = Some(resolution),
                                     !.resolves = hreq.resolves + 1]
        IN  IF FirstEscalation(case_id) = 0
            THEN /\ HumanDone(req, "HTTP 500")
                 /\ UNCHANGED escalations
            ELSE /\ escalations' = ResolvedDocs(case_id, resolution)
                 /\ IF resolution.resolution_type = "approved"
                       /\ resolution.refund_amount \notin {None, Some(0)}
                    THEN hpc' = "resolve_get_escalation" /\ hreq' = req
                    ELSE HumanDone(req, "resolved")
    /\ UNCHANGED <<customers, orders, payments, pc, state, local, response, trace,
                   stages, faults, envVars>>

ResolveEscalation ==
    /\ hpc \in {"idle", "done"}
    /\ hreq.resolves < MaxResolves
    /\ Resolving

ResolveGetEscalation ==
    /\ hpc = "resolve_get_escalation"
    /\ LET escalation == get_escalation(hreq.case_id)
       IN  IF IsSome(escalation)
           THEN /\ hpc' = "resolve_get_customer"
                /\ hreq' = [hreq EXCEPT !.customer_id = Get(escalation).customer_id]
           ELSE HumanDone(hreq, "resolved")
    /\ UNCHANGED <<storeVars, pc, state, local, response, trace, stages, faults, envVars>>

ResolveGetCustomer ==
    /\ hpc = "resolve_get_customer"
    /\ LET customer == get_customer(hreq.customer_id)
       IN  IF IsSome(customer)
           THEN /\ hpc' = "resolve_update_wallet"
                /\ hreq' = [hreq EXCEPT !.new_balance =
                               NewBalance(Get(customer).wallet_balance,
                                          Get(Get(hreq.resolution).refund_amount))]
           ELSE HumanDone(hreq, "resolved")
    /\ UNCHANGED <<storeVars, pc, state, local, response, trace, stages, faults, envVars>>

ResolveUpdateWallet ==
    /\ hpc = "resolve_update_wallet"
    /\ customers' = WalletSet(hreq.customer_id, hreq.new_balance)
    /\ HumanDone(hreq, "resolved")
    /\ UNCHANGED <<orders, payments, escalations, pc, state, local, response, trace,
                   stages, faults, envVars>>

Human ==
    \/ ResolveEscalation
    \/ ResolveGetEscalation
    \/ ResolveGetCustomer
    \/ ResolveUpdateWallet

-----------------------------------------------------------------------------
Workflow(p) ==
    \/ FetchOrderNode(p)
    \/ InferOrder(p)
    \/ FetchGetOrder(p)
    \/ FetchEscalateNotFound(p)
    \/ FetchEscalateError(p)
    \/ FetchEscalateNoOrder(p)
    \/ ValidateGetOrder(p)
    \/ ValidateGetPayment(p)
    \/ Oracle(p)
    \/ ValidateGetCustomer(p)
    \/ ValidateUpdateWallet(p)
    \/ RefundEscalate(p)
    \/ RefundEscalateError(p)
    \/ OtherGetCustomer(p)
    \/ OtherFailedPayments(p)
    \/ OtherGetOrder(p)
    \/ OtherEscalate(p)
    \/ ProcessRequestExcept(p)

(* The store as populate_data leaves it, with any seeded balances *)

SeedCustomers ==
    {c \in [CustomerIds -> {None} \cup {Some([customer_id |-> id, wallet_balance |-> b]) :
                                             id \in CustomerIds, b \in SeedBalances}] :
        /\ IsSome(c["WM001"]) /\ Get(c["WM001"]).customer_id = "WM001"
        /\ c["WM002"] = Some([customer_id |-> "WM002", wallet_balance |-> 0])
        /\ c["WM404"] = None}

SeedEscalation ==
    EscalationDoc("case-h", "WM001",
                  [text |-> "", error |-> "", message |-> ORD002, order_id |-> None,
                   refund_amount |-> None, validation_result |-> None])

InitWith(seeded, replies, budget) ==
    /\ customers \in SeedCustomers
    /\ orders = SeedOrders
    /\ payments = SeedPayments
    /\ escalations \in seeded
    /\ pc = [p \in Workers |-> "idle"]
    /\ state = [p \in Workers |-> IdleState]
    /\ local = [p \in Workers |-> NoLocal]
    /\ response = [p \in Workers |-> NoResponse]
    /\ trace = [p \in Workers |-> <<>>]
    /\ stages = [p \in Workers |-> <<>>]
    /\ entry = [p \in Workers |-> [customers |-> customers, escalations |-> 0,
                                    request |-> IdleState, initial |-> customers]]
    /\ oracle = replies
    /\ faults = budget
    /\ calls = 0
    /\ hpc = "idle"
    /\ hreq = NoResolve

(* One call of process_request with any inputs, any oracle reply and store  *)
(* faults                                                                   *)

Init == InitWith({<<>>, <<SeedEscalation>>}, OracleReplies, MaxFaults)

Next == \E p \in {"w1"} : ProcessRequest(p) \/ Workflow(p)

Spec == Init /\ [][Next]_vars

\* the same call, every await of the workflow completing or raising in the end
SpecLive == Spec /\ WF_vars(Workflow("w1"))

(* One call of process_request whose case id is that of an escalation the  *)
(* store already holds                                                      *)

ProcessRequestSameCase(p) ==
    /\ pc[p] = "idle"
    /\ \E intent \in Intents, message \in Messages, customer_id \in CustomerIds,
          image_data \in Images, refund_amount \in RefundHints :
           Begin(p, InitialState(intent, message, customer_id, SeedEscalation.case_id,
                                 image_data, refund_amount))

InitCollide == InitWith({<<SeedEscalation>>}, OracleReplies, MaxFaults)

NextCollide == \E p \in {"w1"} : ProcessRequestSameCase(p) \/ Workflow(p)

SpecCollide == InitCollide /\ [][NextCollide]_vars

(* Concurrent refund requests with an image for an eligible order, and the  *)
(* human resolve endpoint, on a store that does not fail                    *)

RaceReplies ==
    {r \in OracleReplies : r.kind = "json" /\ r.status = "resolved" /\ ~r.nan
                           /\ r.confidence \in {69, 100}}

RefundRequest(p) ==
    /\ pc[p] = "idle"
    /\ \E customer_id \in {"WM001"}, case_id \in CaseIds,
          refund_amount \in {None, Some(10)} :
           /\ \A q \in Workers \ {p} : state[q].case_id # case_id
           /\ FirstEscalation(case_id) = 0
           /\ Begin(p, InitialState("REFUND_REQUEST", ORD001, customer_id, case_id,
                                    "jpeg", refund_amount))

InitRace == InitWith({<<SeedEscalation>>}, RaceReplies, 0)

NextRace ==
    \/ \E p \in Workers :
          \/ RefundRequest(p)
          \/ FetchOrderNode(p)
          \/ FetchGetOrder(p)
          \/ ValidateGetOrder(p)
          \/ ValidateGetPayment(p)
          \/ Oracle(p)
          \/ ValidateGetCustomer(p)
          \/ ValidateUpdateWallet(p)
          \/ RefundEscalate(p)
    \/ Human

SpecRace == InitRace /\ [][NextRace]_vars

(* Two concurrent calls, one for each of two customers, on a store that     *)
(* does not fail                                                            *)

PairCustomer == [w1 |-> "WM001", w2 |-> "WM002"]
PairCase == [w1 |-> "case-a", w2 |-> "case-b"]

PairRequest(p) ==
    /\ pc[p] = "idle"
    /\ \E intent \in {"REFUND_REQUEST", "WALLET_ISSUE"}, message \in {ORD001, ORD005},
          refund_amount \in {None, Some(10)} :
           Begin(p, InitialState(intent, message, PairCustomer[p], PairCase[p],
                                 "jpeg", refund_amount))

InitPair == InitWith({<<SeedEscalation>>}, RaceReplies, 0)

NextPair ==
    \E p \in Workers :
        \/ PairRequest(p)
        \/ FetchOrderNode(p)
        \/ FetchGetOrder(p)
        \/ ValidateGetOrder(p)
        \/ ValidateGetPayment(p)
        \/ Oracle(p)
        \/ ValidateGetCustomer(p)
        \/ ValidateUpdateWallet(p)
        \/ RefundEscalate(p)
        \/ OtherGetCustomer(p)
        \/ OtherFailedPayments(p)
        \/ OtherEscalate(p)

SpecPair == InitPair /\ [][NextPair]_vars

(* The resolve endpoint called again and again, no workflow call running   *)

ResolveRepeatedly ==
    /\ hpc \in {"idle", "done"}
    /\ hreq.resolves < MaxResolves + 1
    /\ Resolving

InitResolve == InitWith({<<SeedEscalation>>}, {}, 0)

NextResolve ==
    \/ ResolveRepeatedly
    \/ ResolveGetEscalation
    \/ ResolveGetCustomer
    \/ ResolveUpdateWallet

SpecResolve == InitResolve /\ [][NextResolve]_vars

(* One caller repeating an approved refund request with the same arguments,  *)
(* the oracle approving each time, on a store that does not fail             *)

RepeatReplies ==
    {r \in OracleReplies : r.kind = "json" /\ r.status = "resolved" /\ ~r.nan
                           /\ r.confidence \in {ConfidenceThreshold, ConfidenceMax}}

InitRepeat == InitWith({<<SeedEscalation>>}, RepeatReplies, 0)

NextRepeat ==
    \E p \in {"w1"} :
        \/ RefundRequest(p)
        \/ CallAgain(p)
        \/ FetchOrderNode(p)
        \/ FetchGetOrder(p)
        \/ ValidateGetOrder(p)
        \/ ValidateGetPayment(p)
        \/ Oracle(p)
        \/ ValidateGetCustomer(p)
        \/ ValidateUpdateWallet(p)

SpecRepeat == InitRepeat /\ [][NextRepeat]_vars

-----------------------------------------------------------------------------
(* What a call has done so far, read off its trace *)

Issued(p, op) == {i \in DOMAIN trace[p] : trace[p][i].op = op}
Succeeded(p, op) == {i \in Issued(p, op) : trace[p][i].ok}
Failed(p, op) == {i \in Issued(p, op) : ~trace[p][i].ok}
Finished(p) == pc[p] = "done"
Returned(p) == Finished(p) /\ response[p].outcome = "returned"

\* the escalation documents inserted since the call of p began
InsertedSince(p) == {i \in DOMAIN escalations : i > entry[p].escalations}

GenericMessage ==
    Text("We encountered a technical issue processing your request. It has been escalated for manual review.")

-----------------------------------------------------------------------------
(* C1: whenever process_request returns status escalated, an escalation     *)
(* document carrying the caller's case id and customer id has been inserted *)
(* by an add_escalation of that call; and the case_id returned is always    *)
(* the caller's case id.                                                    *)

EscalatedIsPersisted ==
    \A p \in Workers :
        Returned(p) =>
            /\ response[p].case_id = entry[p].request.case_id
            /\ response[p].status = "escalated" =>
                  /\ Succeeded(p, "add_escalation") # {}
                  /\ \E i \in InsertedSince(p) :
                        /\ escalations[i].case_id = entry[p].request.case_id
                        /\ escalations[i].customer_id = entry[p].request.customer_id

\* reached: a call whose inner handler's insert failed returns escalated from
\* the top-level handler
EscalatedAfterFailedInsert ==
    \E p \in Workers :
        /\ Returned(p)
        /\ response[p].status = "escalated"
        /\ response[p].error = "add_escalation"
        /\ Failed(p, "add_escalation") # {}

(* C2: every status process_request returns is one of resolved, escalated,  *)
(* pending_image, error; the placeholder pending is never returned.         *)

ReturnedStatusIsTerminal ==
    \A p \in Workers :
        Returned(p) =>
            response[p].status \in {"resolved", "escalated", "pending_image", "error"}

(* C3: process_request never propagates an exception to its caller; when a  *)
(* call fails it returns escalated after persisting an escalation.          *)

NeverPropagates ==
    \A p \in Workers :
        Finished(p) =>
            /\ response[p].outcome = "returned"
            /\ response[p].error # "" =>
                  /\ response[p].status = "escalated"
                  /\ response[p].message = GenericMessage
                  /\ \E i \in InsertedSince(p) :
                        /\ escalations[i].case_id = entry[p].request.case_id
                        /\ escalations[i].issue_details.error = response[p].error


-----------------------------------------------------------------------------
(* The guards of the wallet write, read off the store, the request and the  *)
(* oracle's reply                                                           *)

\* the oracle was consulted and its text parsed to this status
OracleStatusIs(p, status) ==
    /\ IsSome(local[p].reply)
    /\ Get(local[p].reply).kind = "json"
    /\ Get(local[p].reply).status = status

\* the confidence the resolver keeps: the reply's when it lies in [0, 1], else 0
KeptConfidence(p) ==
    LET reply == Get(local[p].reply)
    IN  IF reply.confidence >= ConfidenceMin /\ reply.confidence <= ConfidenceMax
        THEN reply.confidence ELSE 0

OracleConsulted(p) ==
    IsSome(local[p].reply) /\ Get(local[p].reply).kind = "json" /\ ~Get(local[p].reply).nan

SixGuards(p) ==
    /\ \E o \in orders : o.order_id = state[p].order_id /\ o.status # "cancelled"
    /\ \A q \in payments : q.order_id = state[p].order_id => q.status # "refunded"
    /\ state[p].image_data \notin {NoImage, EmptyImage}
    /\ OracleStatusIs(p, "resolved")
    /\ OracleConsulted(p) /\ KeptConfidence(p) >= ConfidenceThreshold

\* the customer has a record and no refetch of it raised
CustomerFound(p) ==
    /\ IsSome(get_customer(state[p].customer_id))
    /\ Failed(p, "get_customer") = {}

\* C4, as stated: update_wallet_balance is invoked during a call if and only if
\* the six guards hold (order exists, not cancelled, payment not refunded, image
\* present, oracle status resolved, confidence >= 0.7).
WalletWriteIffSixGuards ==
    \A p \in Workers :
        /\ Issued(p, "update_wallet_balance") # {} => SixGuards(p)
        /\ Finished(p) /\ SixGuards(p) => Issued(p, "update_wallet_balance") # {}

\* C4, amended: update_wallet_balance is invoked during a call if and only if the
\* six guards hold and the refetch of the customer returns a record; confidence
\* exactly 0.7 approves, and falsifying any one guard yields no wallet write.
WalletWriteIffGuardsAndCustomer ==
    \A p \in Workers :
        /\ Issued(p, "update_wallet_balance") # {} =>
              SixGuards(p) /\ CustomerFound(p) /\ Succeeded(p, "get_customer") # {}
        /\ Finished(p) /\ SixGuards(p) /\ CustomerFound(p) =>
              Issued(p, "update_wallet_balance") # {}

\* a finished call that wrote the wallet on a confidence of exactly 0.7
WalletWrittenAtThreshold ==
    \E p \in Workers :
        /\ Finished(p)
        /\ Succeeded(p, "update_wallet_balance") # {}
        /\ Get(local[p].reply).confidence = ConfidenceThreshold

-----------------------------------------------------------------------------
(* Refund requests without image bytes *)

NoImageRefund(p) ==
    /\ pc[p] # "idle"
    /\ entry[p].request.intent = "REFUND_REQUEST"
    /\ ~HasImage(entry[p].request.image_data)

\* the message names an order, the order has a record and its fetch did not raise
OrderFetched(p) ==
    /\ ExtractOrderId(entry[p].request.message) # None
    /\ \E o \in orders : o.order_id = ExtractOrderId(entry[p].request.message)
    /\ Failed(p, "get_order") = {}

\* C5, as stated: every refund request without image bytes that returns ends in
\* pending_image and writes no wallet, whether or not the message names an order
\* and whether or not that order exists.
NoImageIsPendingImage ==
    \A p \in Workers :
        Returned(p) /\ NoImageRefund(p) =>
            /\ response[p].status = "pending_image"
            /\ Issued(p, "update_wallet_balance") = {}

\* C5, amended: a refund request without image bytes never writes the wallet; when
\* it returns, its status is pending_image if the message names an order whose
\* record was fetched, and escalated if the message names no order, the order has
\* no record or its fetch failed.
NoImageOutcome ==
    \A p \in Workers :
        NoImageRefund(p) =>
            /\ Issued(p, "update_wallet_balance") = {}
            /\ customers = entry[p].customers
            /\ Returned(p) =>
                  response[p].status =
                      IF OrderFetched(p) THEN "pending_image" ELSE "escalated"

\* a refund request without image bytes that returned pending_image
NoImagePendingImage ==
    \E p \in Workers :
        Returned(p) /\ NoImageRefund(p) /\ response[p].status = "pending_image"

-----------------------------------------------------------------------------
(* Low oracle confidence *)

\* C6: when the oracle is consulted and the confidence it reports is below 0.7,
\* or out of range and so clamped to 0, the wallet is not written and the balance
\* is unchanged; a call that returns then has status escalated whatever status
\* the oracle reported, and exactly one escalation was persisted, for its case.
LowConfidenceEscalates ==
    \A p \in Workers :
        OracleConsulted(p) /\ KeptConfidence(p) < ConfidenceThreshold =>
            /\ Issued(p, "update_wallet_balance") = {}
            /\ customers = entry[p].customers
            /\ Returned(p) =>
                  /\ response[p].status = "escalated"
                  /\ Cardinality(InsertedSince(p)) = 1
                  /\ \A i \in InsertedSince(p) :
                        escalations[i].case_id = entry[p].request.case_id

\* a returned call whose oracle reported resolved with an out-of-range confidence
ResolvedOutOfRangeEscalated ==
    \E p \in Workers :
        /\ Returned(p)
        /\ OracleStatusIs(p, "resolved")
        /\ OracleConsulted(p)
        /\ Get(local[p].reply).confidence > ConfidenceMax
        /\ response[p].status = "escalated"

-----------------------------------------------------------------------------
(* The approved branch *)

\* C7: after a call whose approved branch wrote the wallet, the stored balance is
\* the balance read at the refetch plus the refund amount, the amount being the
\* caller's hint whenever one was supplied and the order's total otherwise; the
\* status is resolved and no escalation was created.
ApprovedCreditsRequestedAmount ==
    \A p \in Workers :
        Returned(p) /\ Succeeded(p, "update_wallet_balance") # {} =>
            /\ Get(customers[state[p].customer_id]).wallet_balance =
                   Get(local[p].customer).wallet_balance
                   + (IF IsSome(entry[p].request.refund_amount)
                      THEN Get(entry[p].request.refund_amount)
                      ELSE Get(state[p].order_data).total_amount)
            /\ response[p].status = "resolved"
            /\ InsertedSince(p) = {}

\* C8: one call issues update_wallet_balance at most once, only after the oracle
\* reported resolved with confidence >= 0.7 and the customer was refetched, and
\* not again after the write failed.
WalletWriteAtMostOnce ==
    \A p \in Workers :
        /\ Cardinality(Issued(p, "update_wallet_balance")) <= 1
        /\ Issued(p, "update_wallet_balance") # {} =>
              /\ OracleStatusIs(p, "resolved")
              /\ OracleConsulted(p) /\ KeptConfidence(p) >= ConfidenceThreshold
              /\ Succeeded(p, "get_customer") # {}
              /\ "refund_decision" \in {stages[p][i] : i \in DOMAIN stages[p]}

\* a finished call whose only wallet write raised
WalletWriteFailedOnce ==
    \E p \in Workers :
        /\ Finished(p)
        /\ Failed(p, "update_wallet_balance") # {}
        /\ Cardinality(Issued(p, "update_wallet_balance")) = 1

-----------------------------------------------------------------------------
(* Concurrent credits to one wallet *)

\* C10: the wallet update is a read followed by an unconditional set: a workflow
\* call stores the balance it read at the refetch plus its refund amount, and the
\* resolve endpoint stores the balance it read plus its refund amount, whatever
\* the balance has become in between; so concurrent credits can lose an update.
WalletWriteIsReadThenSet ==
    [][/\ \A p \in Workers :
             /\ pc[p] = "validate_update_wallet"
             /\ pc'[p] # "validate_update_wallet"
             => customers'[state[p].customer_id] =
                    Some([customer_id |-> state[p].customer_id,
                          wallet_balance |->
                             Get(local[p].customer).wallet_balance
                             + Get(state[p].refund_amount)])
       /\ hpc = "resolve_update_wallet" /\ hpc' # "resolve_update_wallet"
             => customers'[hreq.customer_id] =
                    Some([customer_id |-> hreq.customer_id,
                          wallet_balance |-> hreq.new_balance])]_vars

\* two approved refunds and a human credit for one customer all read the same
\* balance, all returned, and the stored balance holds only one of the credits
LostUpdate ==
    \E p \in Workers : \E q \in Workers \ {p} :
        /\ Returned(p) /\ response[p].status = "resolved"
        /\ Returned(q) /\ response[q].status = "resolved"
        /\ state[p].customer_id = state[q].customer_id
        /\ local[p].customer = local[q].customer
        /\ hpc = "done" /\ hreq.outcome = "resolved"
        /\ hreq.customer_id = state[p].customer_id
        /\ hreq.new_balance = Get(local[p].customer).wallet_balance
                                + Get(Get(hreq.resolution).refund_amount)
        /\ Get(customers[state[p].customer_id]).wallet_balance =
               Get(local[p].customer).wallet_balance + Get(state[p].refund_amount)

-----------------------------------------------------------------------------
(* The balances the workflow stores *)

\* C11: no wallet write of the workflow stores a negative balance, for any
\* non-negative starting balance and any refund amount hint of the caller.
WalletNeverNegative ==
    \A customer_id \in CustomerIds :
        IsSome(customers[customer_id]) =>
            Get(customers[customer_id]).wallet_balance >= 0

-----------------------------------------------------------------------------
(* Repeated calls *)

\* C12: the workflow keeps no idempotency key and leaves the payment as it was:
\* every further call with the same arguments after a resolved approval is
\* approved again, the balance moves only inside a call, and after n approved
\* calls it is the initial balance plus n times the refund amount.
RepeatedApprovalsAccumulate ==
    \A p \in Workers :
        pc[p] # "idle" =>
            LET request == entry[p].request
                order == get_order(ExtractOrderId(request.message))
                amount == IF IsSome(request.refund_amount)
                          THEN Get(request.refund_amount)
                          ELSE Get(order).total_amount
                n == IF Succeeded(p, "update_wallet_balance") # {}
                     THEN calls ELSE calls - 1
            IN  /\ Get(customers[request.customer_id]).wallet_balance =
                       Get(entry[p].initial[request.customer_id]).wallet_balance
                       + n * amount
                /\ payments = SeedPayments
                /\ Finished(p) => Returned(p) /\ response[p].status = "resolved"

\* a second or later call with the same arguments was approved and applied
ApprovedAgain ==
    \E p \in Workers :
        /\ Returned(p) /\ response[p].status = "resolved"
        /\ calls > 1
        /\ Get(customers[entry[p].request.customer_id]).wallet_balance >
               Get(entry[p].customers[entry[p].request.customer_id]).wallet_balance
        /\ Get(entry[p].customers[entry[p].request.customer_id]).wallet_balance >
               Get(entry[p].initial[entry[p].request.customer_id]).wallet_balance

-----------------------------------------------------------------------------
(* The order-context stage of a refund request *)

\* no store or oracle call of the call has raised
NoFailure(p) == \A i \in DOMAIN trace[p] : trace[p][i].ok

StagesRun(p) == {stages[p][i] : i \in DOMAIN stages[p]}

\* fetch_order_node has settled the order id of a refund request
OrderIdSettled(p) ==
    /\ entry[p].request.intent = "REFUND_REQUEST"
    /\ pc[p] \notin {"idle", "fetch_order", "infer_order"}

\* C13: a refund request whose order id resolves to an existing order but which
\* carries no image bytes ends in pending_image with the upload-an-image message;
\* no escalation is created, the oracle is not invoked and the wallet is not
\* modified.
ExistingOrderNoImage ==
    \A p \in Workers :
        NoImageRefund(p) /\ OrderFetched(p) =>
            /\ InsertedSince(p) = {}
            /\ Issued(p, "add_escalation") = {}
            /\ Issued(p, "generate_content") = {}
            /\ Issued(p, "update_wallet_balance") = {}
            /\ customers = entry[p].customers
            /\ Finished(p) =>
                  /\ Returned(p)
                  /\ response[p].status = "pending_image"
                  /\ response[p].message =
                        TextOrder("Please upload an image of the damaged item to process your refund.",
                                  state[p].order_id)

\* a refund request with empty image bytes for an existing order returned
\* pending_image and left no escalation
EmptyImagePendingImage ==
    \E p \in Workers :
        /\ Returned(p)
        /\ NoImageRefund(p) /\ OrderFetched(p)
        /\ entry[p].request.image_data = EmptyImage
        /\ response[p].status = "pending_image"
        /\ InsertedSince(p) = {}

\* C14: a refund request for which no order id is extracted and none inferred
\* never runs the refund-decision stage, the oracle or the wallet write; it ends
\* escalated with the provide-a-valid-order-id message and exactly one escalation
\* (the add_escalation of the stage not raising).
NoOrderIdEscalates ==
    \A p \in Workers :
        OrderIdSettled(p) /\ state[p].order_id = None =>
            /\ "refund_decision" \notin StagesRun(p)
            /\ Issued(p, "generate_content") = {}
            /\ Issued(p, "update_wallet_balance") = {}
            /\ customers = entry[p].customers
            /\ Finished(p) /\ Failed(p, "add_escalation") = {} =>
                  /\ Returned(p)
                  /\ response[p].status = "escalated"
                  /\ response[p].message =
                        Text("Please provide a valid order ID (e.g., ORD001) for your refund request.")
                  /\ Cardinality(InsertedSince(p)) = 1
                  /\ \A i \in InsertedSince(p) :
                        escalations[i].case_id = entry[p].request.case_id

\* a refund request with an image whose customer has no delivered order to infer
\* returned escalated
NoOrderInferredEscalated ==
    \E p \in Workers :
        /\ Returned(p)
        /\ OrderIdSettled(p) /\ state[p].order_id = None
        /\ HasImage(entry[p].request.image_data)
        /\ Succeeded(p, "get_customer_orders") # {}
        /\ response[p].status = "escalated"
        /\ Cardinality(InsertedSince(p)) = 1

\* C15: a refund request whose order id has no order record never runs the
\* refund-decision stage, the oracle or the wallet write; it ends escalated with
\* the order-not-found message and exactly one escalation (no store call raising).
MissingOrderEscalates ==
    \A p \in Workers :
        /\ OrderIdSettled(p)
        /\ state[p].order_id # None
        /\ ~\E o \in orders : o.order_id = state[p].order_id
        =>  /\ "refund_decision" \notin StagesRun(p)
            /\ Issued(p, "generate_content") = {}
            /\ Issued(p, "update_wallet_balance") = {}
            /\ customers = entry[p].customers
            /\ Finished(p) /\ NoFailure(p) =>
                  /\ Returned(p)
                  /\ response[p].status = "escalated"
                  /\ response[p].message =
                        TextOrder("Order not found. Escalated for manual review.",
                                  state[p].order_id)
                  /\ Cardinality(InsertedSince(p)) = 1
                  /\ \A i \in InsertedSince(p) :
                        /\ escalations[i].case_id = entry[p].request.case_id
                        /\ escalations[i].issue_details.text = "Order not found"

\* a refund request for an order id without a record returned escalated
MissingOrderEscalated ==
    \E p \in Workers :
        /\ Returned(p) /\ NoFailure(p)
        /\ OrderIdSettled(p)
        /\ state[p].order_id # None
        /\ ~\E o \in orders : o.order_id = state[p].order_id
        /\ response[p].status = "escalated"
        /\ Cardinality(InsertedSince(p)) = 1

-----------------------------------------------------------------------------
(* The other intents *)

\* a call with one of these intent labels
HasIntent(p, intents) == pc[p] # "idle" /\ entry[p].request.intent \in intents

CustomerExists(p) == IsSome(get_customer(entry[p].request.customer_id))

\* the order the message of the request names has a record
NamedOrderExists(p) ==
    \E o \in orders : o.order_id = ExtractOrderId(entry[p].request.message)

\* C16: WALLET_ISSUE and PAYMENT_PROBLEM never write the wallet; for an existing
\* customer (no store call raising) the call ends escalated with one escalation
\* exactly when the customer has a payment of status failed, and resolved with no
\* escalation otherwise.
FailedPaymentsDecide ==
    \A p \in Workers :
        HasIntent(p, {"WALLET_ISSUE", "PAYMENT_PROBLEM"}) =>
            /\ Issued(p, "update_wallet_balance") = {}
            /\ customers = entry[p].customers
            /\ Finished(p) /\ CustomerExists(p) /\ NoFailure(p) =>
                  /\ Returned(p)
                  /\ IF \E q \in payments :
                            /\ q.customer_id = entry[p].request.customer_id
                            /\ q.status = "failed"
                     THEN /\ response[p].status = "escalated"
                          /\ Cardinality(InsertedSince(p)) = 1
                     ELSE /\ response[p].status = "resolved"
                          /\ InsertedSince(p) = {}

\* a payment problem of a customer with a failed payment returned escalated
FailedPaymentEscalated ==
    \E p \in Workers :
        /\ Returned(p) /\ NoFailure(p)
        /\ HasIntent(p, {"PAYMENT_PROBLEM"})
        /\ response[p].status = "escalated"
        /\ Cardinality(InsertedSince(p)) = 1

\* C17: ORDER_STATUS for an existing customer (no store call raising): order id
\* extracted and order found, resolved; extracted but order missing, escalated; no
\* order id extractable, escalated; an escalation persisted in both escalated cases.
OrderStatusOutcome ==
    \A p \in Workers :
        /\ HasIntent(p, {"ORDER_STATUS"})
        /\ Finished(p) /\ CustomerExists(p) /\ NoFailure(p)
        =>  /\ Returned(p)
            /\ IF ExtractOrderId(entry[p].request.message) # None /\ NamedOrderExists(p)
               THEN response[p].status = "resolved"
               ELSE /\ response[p].status = "escalated"
                    /\ InsertedSince(p) # {}

\* C18: DELIVERY_ISSUE for an existing customer (no store call raising): order id
\* extracted and order found, resolved; extracted but order missing, escalated
\* with one escalation; no order id extractable, the state is returned as it
\* came, status and response at their initial values, and nothing is persisted.
DeliveryIssueOutcome ==
    \A p \in Workers :
        /\ HasIntent(p, {"DELIVERY_ISSUE"})
        /\ Finished(p) /\ CustomerExists(p) /\ NoFailure(p)
        =>  /\ Returned(p)
            /\ IF ExtractOrderId(entry[p].request.message) = None
               THEN /\ state[p] = entry[p].request
                    /\ response[p].status = "pending"
                    /\ response[p].message = Text("Processing your request...")
                    /\ InsertedSince(p) = {}
                    /\ Issued(p, "add_escalation") = {}
               ELSE IF NamedOrderExists(p)
               THEN response[p].status = "resolved" /\ InsertedSince(p) = {}
               ELSE /\ response[p].status = "escalated"
                    /\ Cardinality(InsertedSince(p)) = 1

\* a delivery issue without an order id in its message returned the state untouched
DeliveryIssueUntouched ==
    \E p \in Workers :
        /\ Returned(p) /\ NoFailure(p)
        /\ HasIntent(p, {"DELIVERY_ISSUE"}) /\ CustomerExists(p)
        /\ ExtractOrderId(entry[p].request.message) = None
        /\ state[p] = entry[p].request

\* C19: an intent label outside the five known ones, for an existing customer,
\* is never returned resolved: every return is escalated, and (no store call
\* raising) the call returns the unable-to-process message with one escalation.
UnknownIntentEscalates ==
    \A p \in Workers :
        HasIntent(p, Intents \ KnownIntents) /\ CustomerExists(p) =>
            /\ Issued(p, "update_wallet_balance") = {}
            /\ Returned(p) => response[p].status = "escalated"
            /\ Finished(p) /\ NoFailure(p) =>
                  /\ Returned(p)
                  /\ response[p].message =
                        Text("Unable to process your request automatically. Escalated for manual review.")
                  /\ Cardinality(InsertedSince(p)) = 1
                  /\ \A i \in InsertedSince(p) :
                        escalations[i].case_id = entry[p].request.case_id

\* a request labelled refund_request in lower case returned escalated
LowerCaseIntentEscalated ==
    \E p \in Workers :
        /\ Returned(p) /\ NoFailure(p)
        /\ HasIntent(p, {"refund_request"}) /\ CustomerExists(p)
        /\ response[p].status = "escalated"
        /\ Cardinality(InsertedSince(p)) = 1

\* C20: for any intent other than REFUND_REQUEST, when get_customer finds no
\* record the call returns error with Customer not found, persists no escalation
\* and makes no other store query or write.
AbsentCustomerIsError ==
    \A p \in Workers :
        /\ HasIntent(p, Intents \ {"REFUND_REQUEST"})
        /\ ~CustomerExists(p)
        /\ Failed(p, "get_customer") = {}
        =>  /\ InsertedSince(p) = {}
            /\ customers = entry[p].customers
            /\ \A i \in DOMAIN trace[p] : trace[p][i].op = "get_customer"
            /\ Finished(p) =>
                  /\ Returned(p)
                  /\ response[p].status = "error"
                  /\ response[p].message = Text("Customer not found.")
                  /\ Len(trace[p]) = 1

\* a non-refund request of an unknown customer returned error
AbsentCustomerError ==
    \E p \in Workers :
        /\ Returned(p)
        /\ HasIntent(p, Intents \ {"REFUND_REQUEST"}) /\ ~CustomerExists(p)
        /\ response[p].status = "error"
        /\ Len(trace[p]) = 1

\* an order or payment condition of the intent asks for escalation: a failed
\* payment for WALLET_ISSUE and PAYMENT_PROBLEM, a named order without a record
\* for DELIVERY_ISSUE and ORDER_STATUS
EscalationTriggered(p) ==
    \/ /\ entry[p].request.intent \in {"WALLET_ISSUE", "PAYMENT_PROBLEM"}
       /\ \E q \in payments : /\ q.customer_id = entry[p].request.customer_id
                              /\ q.status = "failed"
    \/ /\ entry[p].request.intent \in {"DELIVERY_ISSUE", "ORDER_STATUS"}
       /\ ExtractOrderId(entry[p].request.message) # None
       /\ ~NamedOrderExists(p)

\* C21: for the non-refund intents (existing customer, no store call raising),
\* whenever no order or payment condition triggers escalation the call returns
\* resolved and no escalation is created.
NoTriggerIsResolved ==
    \A p \in Workers :
        /\ HasIntent(p, KnownIntents \ {"REFUND_REQUEST"})
        /\ Finished(p) /\ CustomerExists(p) /\ NoFailure(p)
        /\ ~EscalationTriggered(p)
        =>  /\ Returned(p)
            /\ response[p].status = "resolved"
            /\ InsertedSince(p) = {}

-----------------------------------------------------------------------------
(* The status of escalation cases *)

\* C22: an escalation document is created pending, is never removed, changes
\* status only from pending to resolved, and is changed by no step of the
\* workflow, only by the resolve endpoint.
EscalationStatusOneWay ==
    [][/\ Len(escalations') >= Len(escalations)
       /\ \A i \in DOMAIN escalations' :
             IF i \in DOMAIN escalations
             THEN /\ \/ escalations'[i].status = escalations[i].status
                     \/ /\ escalations[i].status = "pending"
                        /\ escalations'[i].status = "resolved"
                  /\ pc' # pc => escalations'[i] = escalations[i]
             ELSE escalations'[i].status = "pending"]_vars

\* a case the workflow created has been resolved, next to one still pending
WorkflowCaseResolved ==
    \E i \in DOMAIN escalations : \E j \in DOMAIN escalations :
        /\ escalations[i].case_id \in CaseIds
        /\ escalations[i].status = "resolved"
        /\ escalations[j].status = "pending"

-----------------------------------------------------------------------------
(* The resolver's checks and its handling of the oracle's output *)

\* the reasons of the four checks before the oracle, in the order of the code
CheckReasons == <<"order_not_found", "order_cancelled", "already_refunded", "no_image">>

\* the number of the first check that fails for these inputs, 0 when none does
FirstFailing(order, payment, image_data) ==
    LET failing == {k \in 1..4 :
                       \/ k = 1 /\ ~IsSome(order)
                       \/ k = 2 /\ IsSome(order) /\ Get(order).status = "cancelled"
                       \/ k = 3 /\ IsSome(payment) /\ Get(payment).status = "refunded"
                       \/ k = 4 /\ image_data \in {NoImage, EmptyImage}}
    IN  IF failing = {} THEN 0 ELSE CHOOSE k \in failing : \A j \in failing : k <= j

\* C23: the checks before the oracle short-circuit in the order order-absent,
\* order-cancelled, payment-refunded, no-image: for every order, payment and
\* image the verdict carries the reason of the first failing check, status
\* escalated and confidence 0, and a call whose resolver left early with one of
\* these reasons did not consult the oracle.
ChecksShortCircuitInOrder ==
    /\ \A order \in {None} \cup {Some(o) : o \in orders} :
       \A payment \in {None} \cup {Some(q) : q \in payments} :
       \A image_data \in Images :
           LET k == FirstFailing(order, payment, image_data)
               v == PreCheck([IdleState EXCEPT !.image_data = image_data], order, payment)
           IN  IF k = 0 THEN v = None
               ELSE /\ IsSome(v)
                    /\ Get(v).reason = CheckReasons[k]
                    /\ Get(v).status = "escalated"
                    /\ Get(v).confidence = 0 /\ ~Get(v).nan
    /\ \A p \in Workers :
           /\ IsSome(state[p].validation_result)
           /\ \E k \in 1..4 : Get(state[p].validation_result).reason = CheckReasons[k]
           =>  /\ Issued(p, "generate_content") = {}
               /\ Issued(p, "update_wallet_balance") = {}
               /\ Get(state[p].validation_result).status = "escalated"
               /\ Get(state[p].validation_result).reason =
                     CheckReasons[FirstFailing(local[p].order,
                                               get_order_payment(state[p].order_id),
                                               state[p].image_data)]

\* a refund for a cancelled order whose payment is refunded too was turned down
\* for the cancellation
CancelledBeforeRefunded ==
    \E p \in Workers :
        /\ Finished(p)
        /\ IsSome(state[p].validation_result)
        /\ Get(state[p].validation_result).reason = "order_cancelled"
        /\ \E q \in payments : q.order_id = state[p].order_id /\ q.status = "refunded"

ApprovedReply(p) ==
    /\ OracleStatusIs(p, "resolved")
    /\ OracleConsulted(p)
    /\ KeptConfidence(p) >= ConfidenceThreshold

\* C25: on the approved branch, when the refetch finds no customer record, the
\* verdict becomes escalated with the customer-not-found message and
\* update_wallet_balance is not called; the refund-decision stage persists an
\* escalation for the case and the call returns that status and message (the
\* add_escalation not raising).
ApprovedWithoutCustomer ==
    \A p \in Workers :
        /\ ApprovedReply(p)
        /\ Succeeded(p, "get_customer") # {}
        /\ ~IsSome(get_customer(state[p].customer_id))
        =>  /\ Issued(p, "update_wallet_balance") = {}
            /\ customers = entry[p].customers
            /\ IsSome(state[p].validation_result)
            /\ Get(state[p].validation_result).status = "escalated"
            /\ Get(state[p].validation_result).message =
                  Text("Customer not found during refund processing. Escalated for manual review.")
            /\ Finished(p) /\ Failed(p, "add_escalation") = {} =>
                  /\ Returned(p)
                  /\ response[p].status = "escalated"
                  /\ response[p].message = Get(state[p].validation_result).message
                  /\ Cardinality(InsertedSince(p)) = 1
                  /\ \A i \in InsertedSince(p) :
                        /\ escalations[i].case_id = entry[p].request.case_id
                        /\ escalations[i].issue_details.text = "Refund validation escalated"

\* an approved refund of a customer without a record returned escalated
ApprovedCustomerMissing ==
    \E p \in Workers :
        /\ Returned(p)
        /\ ApprovedReply(p)
        /\ Succeeded(p, "get_customer") # {}
        /\ ~IsSome(get_customer(state[p].customer_id))
        /\ response[p].status = "escalated"

-----------------------------------------------------------------------------
(* Order inference *)

\* C26: the customer's orders are queried only for a REFUND_REQUEST whose message
\* yields no order id and which carries image bytes; an order id of the message
\* always stands; an inferred order is a delivered order of the requesting
\* customer whose order_date string no other of the customer's delivered orders
\* exceeds lexicographically.
InferenceRule ==
    \A p \in Workers :
        LET request == entry[p].request
            delivered == {o \in orders : /\ o.customer_id = request.customer_id
                                         /\ o.status = "delivered"}
            Exceeds(b, a) ==
                \E k \in 1..Len(b) :
                    /\ \A j \in 1..(k - 1) : j <= Len(a) /\ a[j] = b[j]
                    /\ (k > Len(a) \/ a[k] < b[k])
        IN  /\ Issued(p, "get_customer_orders") # {} =>
                  /\ request.intent = "REFUND_REQUEST"
                  /\ ExtractOrderId(request.message) = None
                  /\ request.image_data \notin {NoImage, EmptyImage}
                  /\ Cardinality(Issued(p, "get_customer_orders")) = 1
            /\ OrderIdSettled(p) =>
                  IF ExtractOrderId(request.message) # None
                  THEN /\ state[p].order_id = ExtractOrderId(request.message)
                       /\ Issued(p, "get_customer_orders") = {}
                  ELSE IF Succeeded(p, "get_customer_orders") # {} /\ delivered # {}
                  THEN \E o \in delivered :
                           /\ state[p].order_id = o.order_id
                           /\ \A q \in delivered : ~Exceeds(q.order_date, o.order_date)
                  ELSE state[p].order_id = None

\* an order was inferred whose date string is shorter than that of another
\* delivered order of the customer
InferredByStringOrder ==
    \E p \in Workers :
        /\ OrderIdSettled(p)
        /\ ExtractOrderId(entry[p].request.message) = None
        /\ \E o \in orders : \E q \in orders :
              /\ state[p].order_id = o.order_id
              /\ q.customer_id = o.customer_id /\ q.status = "delivered"
              /\ Len(q.order_date) > Len(o.order_date)

-----------------------------------------------------------------------------
(* The escalation of the refund-decision stage *)

\* C27: when the resolver returns escalated, that status and message are the
\* ones the call returns, and exactly one escalation is persisted for the case,
\* its issue detail carrying the order id, the refund amount and the verdict (the
\* add_escalation not raising).
ResolverEscalationRecorded ==
    \A p \in Workers :
        /\ IsSome(state[p].validation_result)
        /\ Get(state[p].validation_result).status = "escalated"
        /\ Finished(p) /\ Failed(p, "add_escalation") = {}
        =>  /\ Returned(p)
            /\ response[p].status = "escalated"
            /\ response[p].message = Get(state[p].validation_result).message
            /\ Cardinality(InsertedSince(p)) = 1
            /\ \A i \in InsertedSince(p) :
                  /\ escalations[i].case_id = entry[p].request.case_id
                  /\ escalations[i].issue_details.order_id = state[p].order_id
                  /\ state[p].order_id # None
                  /\ escalations[i].issue_details.refund_amount = state[p].refund_amount
                  /\ IsSome(state[p].refund_amount)
                  /\ escalations[i].issue_details.validation_result =
                        state[p].validation_result

\* a refund turned down because the payment was refunded already left its
\* escalation
AlreadyRefundedRecorded ==
    \E p \in Workers :
        /\ Returned(p)
        /\ IsSome(state[p].validation_result)
        /\ Get(state[p].validation_result).reason = "already_refunded"
        /\ Cardinality(InsertedSince(p)) = 1

-----------------------------------------------------------------------------
(* The order of the stages *)

\* the stages a call has run, against the routing of the graph
StageRouting(p) ==
    LET st == stages[p]
        request == entry[p].request
        refund == request.intent = "REFUND_REQUEST"
    IN  /\ Len(st) \in {1, 2}
        /\ st[1] = "fetch_order"
        /\ \A i \in DOMAIN st : \A j \in DOMAIN st : i # j => st[i] # st[j]
        /\ ~({"refund_decision", "handle_other_intents"} \subseteq StagesRun(p))
        /\ Len(st) = 2 => st[2] \in {"refund_decision", "handle_other_intents"}
        /\ "handle_other_intents" \in StagesRun(p) => ~refund
        /\ "refund_decision" \in StagesRun(p) => refund /\ IsSome(state[p].order_data)
        /\ Finished(p) =>
              IF ~refund THEN st = <<"fetch_order", "handle_other_intents">>
              ELSE IF IsSome(state[p].order_data)
              THEN st = <<"fetch_order", "refund_decision">>
              ELSE /\ st = <<"fetch_order">>
                   /\ Returned(p) => response[p].status = "escalated"

\* C28: every call runs the order-context stage first and once, then other-intent
\* handling for a non-refund intent, nothing for a refund whose first stage ended
\* escalated or without an order record, and the refund-decision stage for any
\* other refund; no stage runs twice, the two later stages never both run, and
\* the call terminates.
StagesInFixedOrder ==
    \A p \in {"w1"} :
        /\ [](pc[p] # "idle" => StageRouting(p))
        /\ (pc[p] = "fetch_order") ~> Finished(p)

\* a refund request ended after its first stage
RefundEndedAfterFirstStage ==
    \E p \in Workers :
        /\ Returned(p)
        /\ entry[p].request.intent = "REFUND_REQUEST"
        /\ stages[p] = <<"fetch_order">>
        /\ response[p].status = "escalated"

-----------------------------------------------------------------------------
(* Reattempts *)

\* the operations the call issued again after an issue of them had failed
Reattempted(p) ==
    {trace[p][j].op : j \in {j \in DOMAIN trace[p] :
                                \E i \in 1..(j - 1) : /\ ~trace[p][i].ok
                                                      /\ trace[p][i].op = trace[p][j].op}}

\* C29: after a store or oracle call has failed, the same operation
\* (add_escalation included) is not issued again during that call of
\* process_request.
NoReattempt ==
    \A p \in Workers : Reattempted(p) = {}

-----------------------------------------------------------------------------
(* What a call writes *)

\* C30: no step of a process_request call creates, modifies or deletes an order
\* or payment record, an approved refund leaving the payment's status as it
\* was; a customer record is neither created nor deleted, and one that changes
\* changes in wallet_balance only, in the wallet update of a refund request the
\* oracle approved for that customer.
OrdersAndPaymentsReadOnly ==
    [][/\ orders' = orders
       /\ payments' = payments
       /\ \A c \in CustomerIds :
             customers'[c] # customers[c] =>
                 /\ IsSome(customers[c]) /\ IsSome(customers'[c])
                 /\ [Get(customers'[c]) EXCEPT !.wallet_balance = Get(customers[c]).wallet_balance]
                        = Get(customers[c])
                 /\ \E p \in Workers :
                       /\ pc[p] = "validate_update_wallet"
                       /\ state[p].customer_id = c
                       /\ state[p].intent = "REFUND_REQUEST"
                       /\ ApprovedReply(p)]_vars

\* an approved refund was credited and the payment of the order is as it was
CreditedPaymentUntouched ==
    \E p \in Workers :
        /\ Returned(p)
        /\ response[p].status = "resolved"
        /\ Succeeded(p, "update_wallet_balance") # {}
        /\ customers # entry[p].customers
        /\ payments = SeedPayments
        /\ \E q \in payments : q.order_id = state[p].order_id /\ q.status # "refunded"

-----------------------------------------------------------------------------
(* Colliding case ids *)

\* the escalation documents the store holds under a case id
RecordsOf(case_id) == {i \in DOMAIN escalations : escalations[i].case_id = case_id}

\* C31: add_escalation with a case id the store already holds is never rejected,
\* and the existing case is overwritten, so that the store holds at most one
\* record per case id.
OneRecordPerCaseId ==
    \A case_id \in HumanCaseIds : Cardinality(RecordsOf(case_id)) <= 1

-----------------------------------------------------------------------------
(* Escalation records and the terminal status *)

\* C32: a call persists an escalation record only if its terminal status is
\* escalated; a call that ends resolved, pending_image, error or with the
\* initial status pending, and a call that raises, has written no escalation
\* record.
EscalationOnlyIfEscalated ==
    \A p \in Workers :
        /\ InsertedSince(p) # {} /\ Finished(p) =>
              Returned(p) /\ response[p].status = "escalated"
        /\ Returned(p) /\ response[p].status \in {"resolved", "pending_image", "error", "pending"} =>
              /\ InsertedSince(p) = {}
              /\ Succeeded(p, "add_escalation") = {}

\* the top-level handler wrote the record of a call and the call returned
\* escalated
TopLevelRecordEscalated ==
    \E p \in Workers :
        /\ Returned(p)
        /\ response[p].error # ""
        /\ InsertedSince(p) # {}
        /\ response[p].status = "escalated"

-----------------------------------------------------------------------------
(* Credit or review, never both *)

\* C33: no call both modifies the wallet and persists an escalation: once
\* update_wallet_balance has completed in a call, the call issues no
\* add_escalation and its terminal status is resolved.
CreditedNeverEscalated ==
    \A p \in Workers :
        Succeeded(p, "update_wallet_balance") # {} =>
            /\ Issued(p, "add_escalation") = {}
            /\ InsertedSince(p) = {}
            /\ state[p].status = "resolved"
            /\ Finished(p) => Returned(p) /\ response[p].status = "resolved"

\* a call credited the wallet and returned, the escalations being those the
\* store held when it was entered
CreditedWithoutReview ==
    \E p \in Workers :
        /\ Returned(p)
        /\ Succeeded(p, "update_wallet_balance") # {}
        /\ customers # entry[p].customers
        /\ Len(escalations) = entry[p].escalations
        /\ Len(escalations) > 0

-----------------------------------------------------------------------------
(* One record per call *)

\* C34: an add_escalation that fails writing nothing, one call of
\* process_request persists at most one escalation record, on every path,
\* those on which an inner handler and the top-level handler both run included.
AtMostOneRecordPerCall ==
    \A p \in Workers :
        pc[p] # "idle" =>
        /\ Cardinality(InsertedSince(p)) <= 1
        /\ Cardinality(Succeeded(p, "add_escalation")) <= 1
        /\ Cardinality(InsertedSince(p)) = Cardinality(Succeeded(p, "add_escalation"))
        /\ \A i \in Succeeded(p, "add_escalation") :
              \A j \in Issued(p, "add_escalation") : j <= i

\* the stage's add_escalation and its handler's both failed, the top-level
\* handler's went through, and the call left one record
ThirdInsertWentThrough ==
    \E p \in Workers :
        /\ Returned(p)
        /\ Cardinality(Failed(p, "add_escalation")) = 2
        /\ Cardinality(Succeeded(p, "add_escalation")) = 1
        /\ Cardinality(InsertedSince(p)) = 1

-----------------------------------------------------------------------------
(* Whose order is refunded *)

\* the order the call resolved belongs to the customer of the call
OwnOrder(p) ==
    /\ IsSome(state[p].order_data)
    /\ Get(state[p].order_data).customer_id = state[p].customer_id

\* C35: an approved refund credits the requesting customer's wallet only when
\* the order it resolved is owned by that customer; a message naming an order of
\* another customer never leads to a wallet credit.
CreditOnlyForOwnOrder ==
    \A p \in Workers :
        Succeeded(p, "update_wallet_balance") # {} => OwnOrder(p)

-----------------------------------------------------------------------------
(* Calls for different customers *)

\* what a step of worker p may touch: the wallet of its own customer, one new
\* escalation attributed to its own customer and case, and its own call
StepOf(p) ==
    pc'[p] # pc[p] =>
        LET customer_id == state'[p].customer_id
        IN  /\ \A c \in CustomerIds \ {customer_id} : customers'[c] = customers[c]
            /\ \A i \in DOMAIN escalations : escalations'[i] = escalations[i]
            /\ Len(escalations') \in {Len(escalations), Len(escalations) + 1}
            /\ Len(escalations') > Len(escalations) =>
                  /\ escalations'[Len(escalations')].customer_id = customer_id
                  /\ escalations'[Len(escalations')].case_id = state'[p].case_id
            /\ \A q \in Workers \ {p} :
                  /\ state'[q] = state[q] /\ local'[q] = local[q]
                  /\ response'[q] = response[q] /\ trace'[q] = trace[q]
                  /\ pc'[q] = pc[q]

\* the balance of the customer of call p is what it was when the call was
\* entered, plus the refund the call itself credited
OwnBalance(p) ==
    LET customer_id == state[p].customer_id
        credit == IF Succeeded(p, "update_wallet_balance") # {}
                  THEN Get(state[p].refund_amount) ELSE 0
    IN  IsSome(customers[customer_id]) =>
            Get(customers[customer_id]).wallet_balance =
                Get(entry[p].customers[customer_id]).wallet_balance + credit

\* C36: a call for one customer never changes the wallet balance of another
\* customer and never writes an escalation attributed to another; concurrent
\* calls for different customers leave each other's call state, outcome and
\* stored balance alone.
CallsForDifferentCustomersApart ==
    /\ [](\A p \in Workers : pc[p] # "idle" => OwnBalance(p))
    /\ [][\A p \in Workers : StepOf(p)]_vars

\* both customers were credited by their own concurrent calls, one of them for
\* an order of the other
BothCredited ==
    /\ \A p \in Workers : Returned(p) /\ Succeeded(p, "update_wallet_balance") # {}
    /\ \E p \in Workers : ~OwnOrder(p)
    /\ \A p \in Workers :
          Get(customers[state[p].customer_id]).wallet_balance >
              Get(entry[p].initial[state[p].customer_id]).wallet_balance

-----------------------------------------------------------------------------
(* When the oracle is invoked *)

\* C37: the oracle is invoked at most once in a call, and only for a
\* REFUND_REQUEST whose order record was found, is not cancelled, whose payment
\* is not refunded and whose image bytes are non-empty; every wallet write of
\* the call comes after it; a call with another intent never invokes it.
OracleInvokedOnceAfterChecks ==
    \A p \in Workers :
        LET request == entry[p].request
            asked == Issued(p, "generate_content")
        IN  /\ Cardinality(asked) <= 1
            /\ request.intent # "REFUND_REQUEST" => asked = {}
            /\ asked # {} =>
                  /\ request.intent = "REFUND_REQUEST"
                  /\ IsSome(state[p].order_data)
                  /\ \E o \in orders : /\ o.order_id = state[p].order_id
                                       /\ o.status # "cancelled"
                  /\ \A q \in payments :
                        q.order_id = state[p].order_id => q.status # "refunded"
                  /\ request.image_data \notin {NoImage, EmptyImage}
            /\ \A i \in Issued(p, "update_wallet_balance") :
                  \E j \in asked : j < i /\ trace[p][j].ok

\* the oracle was asked once and the wallet written after it
OracleThenWallet ==
    \E p \in Workers :
        /\ Returned(p)
        /\ Cardinality(Issued(p, "generate_content")) = 1
        /\ \E i \in Succeeded(p, "update_wallet_balance") :
              \E j \in Issued(p, "generate_content") : j < i

-----------------------------------------------------------------------------
(* Store faults inside the order-context stage *)

\* the first get_order of a refund call, the one of the order-context stage,
\* raised
FetchGetOrderFailed(p) ==
    /\ entry[p].request.intent = "REFUND_REQUEST"
    /\ \E i \in Failed(p, "get_order") : \A j \in Issued(p, "get_order") : i <= j

\* the call ended inside the order-context stage, escalated with this message
\* and one escalation with this text
EndedInFetchStage(p, message, text) ==
    /\ Returned(p)
    /\ response[p].status = "escalated"
    /\ response[p].error = ""
    /\ response[p].message = message
    /\ stages[p] = <<"fetch_order">>
    /\ Cardinality(InsertedSince(p)) = 1
    /\ \A i \in InsertedSince(p) :
          /\ escalations[i].case_id = entry[p].request.case_id
          /\ escalations[i].customer_id = entry[p].request.customer_id
          /\ escalations[i].issue_details.text = text

\* C38: a get_customer_orders that raises during inference is swallowed in the
\* order-context stage and counts as no order inferred: the call ends escalated
\* with the provide-a-valid-order-id message and one persisted escalation, and
\* the top-level handler is not reached; a get_order that raises in the stage
\* is handled in the stage too, escalated with one escalation persisted (the
\* add_escalation not raising).
FetchStageFaultsHandledInside ==
    \A p \in Workers :
        /\ Failed(p, "get_customer_orders") # {} =>
              /\ Failed(p, "add_escalation") = {} => pc[p] # "process_request_except"
              /\ state[p].order_id = None
              /\ Issued(p, "get_order") = {}
              /\ Finished(p) /\ Failed(p, "add_escalation") = {} =>
                    EndedInFetchStage(p,
                        Text("Please provide a valid order ID (e.g., ORD001) for your refund request."),
                        "No order ID provided")
        /\ FetchGetOrderFailed(p) =>
              /\ Cardinality(Issued(p, "get_order")) = 1
              /\ Finished(p) /\ Failed(p, "add_escalation") = {} =>
                    EndedInFetchStage(p,
                        TextOrder("Error retrieving order. Escalated for manual review.",
                                  state[p].order_id),
                        "Error fetching order")

\* the inference query raised and the call returned escalated from the stage
InferenceFaultSwallowed ==
    \E p \in Workers :
        /\ Failed(p, "get_customer_orders") # {}
        /\ Returned(p)
        /\ response[p].status = "escalated"
        /\ Cardinality(InsertedSince(p)) = 1

-----------------------------------------------------------------------------
(* Resolving a case more than once *)

\* the amounts a resolution can credit
ResolutionCredits ==
    {Get(r.refund_amount) : r \in {r \in Resolutions : r.refund_amount # None}}

\* C39: whatever the sequence of calls to the resolve endpoint for a case, the
\* customer's wallet is credited with the approved amount at most once: the
\* customer of the one stored case holds at most the balance the store began
\* with plus one credit.
CaseCreditedAtMostOnce ==
    \A c \in CustomerIds :
        IsSome(customers[c]) =>
            \E credit \in ResolutionCredits \cup {0} :
                Get(customers[c]).wallet_balance <=
                    Get(entry["w1"].initial[c]).wallet_balance + credit

=============================================================================
